---- MODULE Spec2Model ----
(***************************************************************************)
(* Unified session runtime of unified-agent-sdk: the session/run lifecycle *)
(* of ClaudeSession and CodexSession, the background task that pipes        *)
(* runEvents() into a per-run AsyncEventStream, cancellation, and the       *)
(* result promise.                                                          *)
(*                                                                          *)
(* Scheduling is JavaScript's: one thread, run-to-completion.  A task gives *)
(* up the thread only at an await or at a yield of the async generator.     *)
(* The positions in SyncStates are positions inside a synchronous segment:  *)
(* while some task is at one of them no other operation is interleaved.     *)
(***************************************************************************)
EXTENDS Integers, Sequences, FiniteSets, TLC

\* ---------------------------------------------------------------- bounds
MaxRuns == 1        \* run() calls that are accepted over the session's life
MaxNative == 2      \* native messages a backend stream delivers before it must end
MaxCap == 2         \* largest AsyncEventStream capacity tried (opts.maxBuffer)
MaxPending == 1     \* next() calls a consumer leaves unanswered at once
MaxSeqRuns == 2     \* run() calls accepted one after another in SeqSpec
MaxSeqNative == 1   \* native messages per run in SeqSpec
MaxItems == 4       \* push() calls on the stand-alone stream of StreamSpec
MaxWaiters == 2     \* next() calls left unanswered at once in StreamSpec
MaxCalls == 2       \* repeated close() / [Symbol.asyncIterator]() calls in StreamSpec
MaxTokens == 2      \* words of a Bash command handed to canUseTool in PermSpec
MaxDirs == 1        \* additional directories of a workspace in OpenSpec
MaxChanges == 2     \* changes listed by a file_change item in MapSpec
MaxProps == 2
\* Distinct native session ids (Claude session ids, Codex thread ids)
MaxIds == 2       \* properties of an object handed to unwrapStructuredOutput in UnwrapSpec

RunIds == 1..(IF MaxSeqRuns > MaxRuns THEN MaxSeqRuns ELSE MaxRuns)
NoRun == 0          \* activeRunId === undefined

Providers == {"claude", "codex"}

\* ---------------------------------------------------------------- events
\* A RuntimeEvent: its type, the status of a run.completed ("" otherwise),
\* and raw: which native cause or code site its payload comes from.
Ev(t, s, w) == [type |-> t, status |-> s, raw |-> w]
NoEvent == Ev("none", "", "")
RunStarted == Ev("run.started", "", "start")
Done(s, w) == Ev("run.completed", s, w)
ErrorEv(w) == Ev("error", "", w)

IsDone(e) == e.type = "run.completed"

\* Native messages of the two backends (the kinds the adapters tell apart).
ClaudeMsgs == {"stream_event", "system", "result_success", "result_error"}
CodexEvents == {"item.started", "turn.started", "turn.completed", "turn.failed", "error"}

VARIABLES
  provider,          \* which adapter class the session is
  maxBuffer,         \* capacity the session's event streams are constructed with
  activeRunId,       \* ClaudeSession.activeRunId / CodexSession.activeRunId
  abortControllers,  \* keys of the abortControllers map
  aborted,           \* aborted[r]: abortController.signal.aborted of run r's controller
  nextRunId,         \* randomUUID(): the next fresh run id
  thrown,            \* activeRunId carried by the last SessionBusyError (NoRun: none thrown)
  pc,                \* position of run r's background task (run loop + runEvents generator)
  inflight,          \* the event the generator has yielded and the loop has not yet pushed
  cont,              \* where the generator resumes after that yield
  completed,         \* runEvents' local `completed`
  cancelled,         \* runEvents' local `cancelled` (catch block / Codex end of stream)
  done,              \* runEvents' local `done`: the run.completed it has built
  curEv,             \* the native event the Codex generator is processing
  nativeCount,       \* native messages the backend has delivered to run r
  backendCalled,     \* query() / thread.runStreamed() has been invoked for run r
  result,            \* value the result promise is resolved with (NoEvent: pending)
  resolveCalls,      \* number of resolveResult() calls; resultResolved is resolveCalls > 0
  events,            \* run r's AsyncEventStream
  pushed,            \* arguments of the events.push() calls of run r, in order
  liveCancel,        \* a cancel hit run r after streaming began and before its terminal event
  runLimit,          \* how many run() calls the caller gets accepted over the session's life
  signal,            \* signal[r]: RunConfig.signal of run r ("none", "live" or "aborted")
  disposed,          \* session.dispose() has returned
  stream,            \* a stand-alone AsyncEventStream
  slog,              \* what was done to that stream: the calls made and their outcomes
  permissions,       \* SessionConfig.permissions (each flag "true", "false" or "undefined")
  workspace,         \* SessionConfig.workspace as handed to the Claude mapping
  codexOptions,      \* mapUnifiedPermissionsToCodex(permissions), once computed
  claudeOptions,     \* mapUnifiedPermissionsToClaude(permissions, workspace), once computed
  toolCall,          \* the last canUseTool(toolName, toolInput, meta) call
  decision,          \* what that call returned
  mapping,           \* mapping[r]: the item.completed event run r's mapEvent generator is
                     \* working on, the events it has yet to yield, and Len(pushed[r])
                     \* when the event arrived
  unwrapped,         \* the last unwrapStructuredOutput(value) call and what it returned
  opening,           \* how the session is being opened, what is found at its workspace
                     \* roots, and how far the opening has come
  resume             \* the session's resumeSessionId and nativeSessionId, the options of
                     \* its last run, the last snapshot() and the configuration the
                     \* session was first opened with

sessVars == <<provider, maxBuffer, activeRunId, abortControllers, nextRunId, thrown>>
genVars == <<pc, inflight, cont, completed, cancelled, done, curEv, nativeCount, backendCalled>>
resVars == <<result, resolveCalls>>
chanVars == <<events, pushed>>
histVars == <<liveCancel>>
envVars == <<runLimit, signal, disposed>>
streamVars == <<stream, slog>>
permVars == <<permissions, workspace, codexOptions, claudeOptions, toolCall, decision>>
extVars == <<mapping, unwrapped, opening, resume>>
unitVars == <<streamVars, permVars, extVars>>
runVars == <<provider, maxBuffer, activeRunId, abortControllers, aborted, nextRunId, thrown,
             pc, inflight, cont, completed, cancelled, done, curEv, nativeCount, backendCalled,
             result, resolveCalls, events, pushed, liveCancel>>
vars == <<runVars, envVars, streamVars, permVars, extVars>>

\* ------------------------------------------------- AsyncEventStream (pure)
\* The stream as a record.  delivered / ended are what the consumer has been
\* handed: the values of the IteratorResults with done: false, and whether an
\* IteratorResult with done: true has been handed out.
NewStream(cap) ==
  [maxBuffer |-> cap, buffer |-> <<>>, pending |-> 0, closed |-> FALSE,
   iteratorCreated |-> FALSE, delivered |-> <<>>, ended |-> FALSE, returned |-> FALSE]

\* A push that, on a full buffer, discards the new value and keeps the old ones.
PushDropNewest(s, value) ==
  IF s.closed THEN s
  ELSE IF s.pending > 0
       THEN [s EXCEPT !.pending = @ - 1, !.delivered = Append(@, value)]
  ELSE IF Len(s.buffer) >= s.maxBuffer THEN s
  ELSE [s EXCEPT !.buffer = Append(@, value)]

\* A push that buffers without a capacity.
PushUnbounded(s, value) ==
  IF s.closed THEN s
  ELSE IF s.pending > 0
       THEN [s EXCEPT !.pending = @ - 1, !.delivered = Append(@, value)]
  ELSE [s EXCEPT !.buffer = Append(@, value)]

\* push(value): ignored once closed; handed to the oldest waiter if there is
\* one; otherwise buffered, dropping the oldest item beyond maxBuffer.
Push(s, value) ==
  IF s.closed THEN s
  ELSE IF s.pending > 0
       THEN [s EXCEPT !.pending = @ - 1, !.delivered = Append(@, value)]
  ELSE LET b == Append(s.buffer, value) IN
       [s EXCEPT !.buffer = IF Len(b) > s.maxBuffer THEN Tail(b) ELSE b]

\* A close that sets the flag and leaves the waiters suspended.
CloseNoWake(s) ==
  IF s.closed THEN s ELSE [s EXCEPT !.closed = TRUE]

\* close(): no-op once closed; otherwise every waiter gets { done: true }.
Close(s) ==
  IF s.closed THEN s
  ELSE [s EXCEPT !.closed = TRUE, !.pending = 0, !.ended = (s.pending > 0) \/ @]

\* An iterator factory that hands out a second iterator.
IterateAgain(s) == [stream |-> [s EXCEPT !.iteratorCreated = TRUE], threw |-> FALSE]

\* [Symbol.asyncIterator](): throws when an iterator was already created.
Iterate(s) ==
  IF s.iteratorCreated THEN [stream |-> s, threw |-> TRUE]
  ELSE [stream |-> [s EXCEPT !.iteratorCreated = TRUE], threw |-> FALSE]

\* A next() that hands out the oldest buffered item and leaves it in the buffer.
IterNextPeek(s) ==
  IF Len(s.buffer) > 0
  THEN [s EXCEPT !.delivered = Append(@, Head(s.buffer))]
  ELSE IF s.closed THEN [s EXCEPT !.ended = TRUE]
  ELSE [s EXCEPT !.pending = @ + 1]

\* next() of the iterator
IterNext(s) ==
  IF Len(s.buffer) > 0
  THEN [s EXCEPT !.buffer = Tail(@), !.delivered = Append(@, Head(s.buffer))]
  ELSE IF s.closed THEN [s EXCEPT !.ended = TRUE]
  ELSE [s EXCEPT !.pending = @ + 1]

\* return() of the iterator
IterReturn(s) ==
  [Close([s EXCEPT !.buffer = <<>>]) EXCEPT !.ended = TRUE, !.returned = TRUE]

\* ------------------------------------------------------------------ Init
\* The stand-alone stream before it is constructed, and the record of what
\* has been done to it: the values push() was called with, how many of them
\* came before the first close() (-1: not closed), whether next() was called
\* before that close(), the waiters that close() found, and the close() and
\* [Symbol.asyncIterator]() calls made and how many of the latter threw.
NoLog == [items |-> <<>>, closedAt |-> -1, earlyNext |-> FALSE, woken |-> 0,
          closes |-> 0, iterCalls |-> 0, iterThrows |-> 0]

StreamUnused == stream = NewStream(1) /\ slog = NoLog

\* A JavaScript value that may be a string: text is the string's content (the
\* words of a command, the characters of a path); "absent" is a missing
\* property or undefined, "other" any non-string value.
Str(s) == [type |-> "string", text |-> s]
Absent == [type |-> "absent", text |-> <<>>]
NonString == [type |-> "other", text |-> <<>>]

\* No permissions mapped, no tool call decided.
NoPermissions == [yolo |-> "undefined", network |-> "undefined", sandbox |-> "undefined",
                  write |-> "undefined"]
NoWorkspace == [cwd |-> Absent, additionalDirs |-> <<>>]
NoCodexOptions == [mapped |-> FALSE, approvalPolicy |-> "", sandboxMode |-> "",
                   networkAccessEnabled |-> FALSE, webSearchEnabled |-> FALSE]
NoClaudeOptions == [mapped |-> FALSE, permissionMode |-> "", allowDangerouslySkipPermissions |-> FALSE,
                    canUseTool |-> "undefined", sandboxEnabled |-> FALSE, disallowedTools |-> <<>>]
NoInput == [kind |-> "missing", command |-> Absent, file_path |-> Absent]
NoMeta == [kind |-> "missing", blockedPath |-> Absent]
NoToolCall == [toolName |-> "", toolInput |-> NoInput, meta |-> NoMeta]
NoDecision == [behavior |-> "", message |-> "", interrupt |-> "absent", updatedInput |-> NoInput]

\* No item being mapped.
NoMapping == [item |-> [type |-> "", status |-> "", changes |-> <<>>], rest |-> <<>>, base |-> 0]

\* A JSON value: its kind and, for a plain object, its properties in key
\* order, each a key and a value that is no object itself.
Leaf(k) == [kind |-> k, props |-> <<>>]
Obj(props) == [kind |-> "object", props |-> props]
NoUnwrap == [copy |-> "", rootType |-> "", value |-> Leaf("undefined"),
             out |-> Leaf("undefined"), called |-> FALSE]

\* A session opened through runtime.openSession() with no workspace declared.
Opened == [via |-> "sdk", cwd |-> "absent", additionalDirs |-> <<>>, stage |-> "opened"]

\* A session opened without a configuration, never run and never snapshot:
\* id 0 is undefined, handle -1 no SessionHandle.
NoResume == [resumeSessionId |-> 0, nativeSessionId |-> 0, observed |-> 0, handle |-> -1,
             configured |-> FALSE, running |-> FALSE, runs |-> 0, resumed |-> FALSE,
             options |-> [built |-> FALSE, resume |-> 0, cwd |-> Absent, additionalDirectories |-> <<>>],
             opened |-> [configured |-> FALSE, permissions |-> NoPermissions, workspace |-> NoWorkspace]]

ExtUnused ==
  /\ mapping = [r \in RunIds |-> NoMapping]
  /\ unwrapped = NoUnwrap
  /\ opening = Opened
  /\ resume = NoResume

PermUnused ==
  /\ permissions = NoPermissions
  /\ workspace = NoWorkspace
  /\ codexOptions = NoCodexOptions
  /\ claudeOptions = NoClaudeOptions
  /\ toolCall = NoToolCall
  /\ decision = NoDecision

\* A session after construction: no run yet.
InitSession ==
  /\ provider \in Providers
  /\ maxBuffer \in 1..MaxCap
  /\ activeRunId = NoRun
  /\ abortControllers = {}
  /\ aborted = [r \in RunIds |-> FALSE]
  /\ nextRunId = 1
  /\ thrown = NoRun
  /\ pc = [r \in RunIds |-> "idle"]
  /\ inflight = [r \in RunIds |-> NoEvent]
  /\ cont = [r \in RunIds |-> "none"]
  /\ completed = [r \in RunIds |-> FALSE]
  /\ cancelled = [r \in RunIds |-> FALSE]
  /\ done = [r \in RunIds |-> NoEvent]
  /\ curEv = [r \in RunIds |-> "none"]
  /\ nativeCount = [r \in RunIds |-> 0]
  /\ backendCalled = [r \in RunIds |-> FALSE]
  /\ result = [r \in RunIds |-> NoEvent]
  /\ resolveCalls = [r \in RunIds |-> 0]
  /\ events = [r \in RunIds |-> NewStream(maxBuffer)]
  /\ pushed = [r \in RunIds |-> <<>>]
  /\ liveCancel = [r \in RunIds |-> FALSE]
  /\ disposed = FALSE

\* One run, started without a RunConfig.signal.
Init ==
  /\ InitSession
  /\ runLimit = MaxRuns
  /\ signal = [r \in RunIds |-> "none"]
  /\ StreamUnused
  /\ PermUnused
  /\ ExtUnused

\* ------------------------------------------------------------ scheduling
SyncStates == {"call_backend", "after_map", "error_done", "resolve_break", "after_loop",
               "ended_done", "resolve_end", "catch", "catch_done", "gen_finally", "map_next"}

\* Some task is inside a synchronous segment: nothing else runs.
InSync == \E r \in RunIds : pc[r] \in SyncStates

Started(r) == pc[r] # "idle"

\* The run.completed of run r has been constructed.
TerminalProduced(r) ==
  \/ completed[r]
  \/ pc[r] = "yielding" /\ IsDone(inflight[r])
  \/ \E i \in 1..Len(pushed[r]) : IsDone(pushed[r][i])

\* ------------------------------------------------------------ generator
\* `yield ev`: the generator suspends with ev in flight and resumes at k.
Yield(r, ev, k) ==
  /\ pc' = [pc EXCEPT ![r] = "yielding"]
  /\ inflight' = [inflight EXCEPT ![r] = ev]
  /\ cont' = [cont EXCEPT ![r] = k]

Goto(r, k) ==
  /\ pc' = [pc EXCEPT ![r] = k]
  /\ UNCHANGED <<inflight, cont>>

\* A resolveResult that sets the flag but never settles the promise.
ResolveResultDropped(r, value) ==
  /\ resolveCalls' = [resolveCalls EXCEPT ![r] = @ + 1]
  /\ UNCHANGED result

\* resolveResult(done): resultResolved = true; resolve(value).  A promise
\* keeps the first value it is resolved with.
ResolveResult(r, value) ==
  /\ resolveCalls' = [resolveCalls EXCEPT ![r] = @ + 1]
  /\ result' = [result EXCEPT ![r] = IF @ = NoEvent THEN value ELSE @]

resultResolved(r) == resolveCalls[r] > 0

\* A status that reports every failure as a cancellation.
StatusOfCancelled(c) == "cancelled"

\* `status: cancelled ? "cancelled" : "error"`
StatusOf(c) == IF c THEN "cancelled" ELSE "error"

\* A generator that invokes the backend before yielding run.started.
GenStartCallsFirst == [pc |-> "call_backend", inflight |-> NoEvent, cont |-> "none"]

\* The generator's first segment, run inside run(): it builds the options and
\* suspends at `yield run.started`; the backend call comes after that yield.
GenStart == [pc |-> "yielding", inflight |-> RunStarted, cont |-> "call_backend"]

\* ---------------------------------------------------------------- run()
SessionBusy == activeRunId # NoRun

\* status(): `{ state: this.activeRunId ? "running" : "idle", activeRunId }`
status == [state |-> IF activeRunId # NoRun THEN "running" ELSE "idle", activeRunId |-> activeRunId]

\* A busy run() whose abort controller was registered before the check.
RejectBusyLate ==
  /\ thrown' = activeRunId
  /\ abortControllers' = abortControllers \cup {nextRunId}
  /\ UNCHANGED <<unitVars, envVars, provider, maxBuffer, activeRunId, aborted, nextRunId>>
  /\ UNCHANGED <<genVars, resVars, chanVars, histVars>>

\* `throw new SessionBusyError(this.activeRunId)`, the first statement of run()
RejectBusy ==
  /\ thrown' = activeRunId
  /\ UNCHANGED <<unitVars, envVars, provider, maxBuffer, activeRunId, abortControllers, aborted, nextRunId>>
  /\ UNCHANGED <<genVars, resVars, chanVars, histVars>>

\* run(): rejected with SessionBusyError(activeRunId) when busy; otherwise
\* registers the abort controller, sets activeRunId, creates the stream and
\* starts the background task, which runs up to the generator's first yield.
Run ==
  /\ ~InSync
  /\ IF SessionBusy
     THEN RejectBusy
     ELSE /\ nextRunId <= runLimit
          /\ LET r == nextRunId IN
             /\ nextRunId' = r + 1
             /\ abortControllers' = abortControllers \cup {r}
             /\ activeRunId' = r
             /\ events' = [events EXCEPT ![r] = NewStream(maxBuffer)]
             /\ pc' = [pc EXCEPT ![r] = GenStart.pc]
             /\ inflight' = [inflight EXCEPT ![r] = GenStart.inflight]
             /\ cont' = [cont EXCEPT ![r] = GenStart.cont]
          /\ UNCHANGED <<unitVars, envVars, provider, maxBuffer, aborted, thrown, pushed>>
          /\ UNCHANGED <<completed, cancelled, done, curEv, nativeCount, backendCalled>>
          /\ UNCHANGED <<resVars, histVars>>

\* A run loop body that pushes and leaves the cleanup to the finally blocks.
LoopPushKeepsActive(r) ==
  /\ ~InSync
  /\ pc[r] = "yielding"
  /\ events' = [events EXCEPT ![r] = Push(@, inflight[r])]
  /\ pushed' = [pushed EXCEPT ![r] = Append(@, inflight[r])]
  /\ UNCHANGED <<abortControllers, activeRunId>>
  /\ pc' = [pc EXCEPT ![r] = cont[r]]
  /\ inflight' = [inflight EXCEPT ![r] = NoEvent]
  /\ cont' = [cont EXCEPT ![r] = "none"]
  /\ UNCHANGED <<unitVars, envVars, provider, maxBuffer, aborted, nextRunId, thrown>>
  /\ UNCHANGED <<completed, cancelled, done, curEv, nativeCount, backendCalled>>
  /\ UNCHANGED <<resVars, histVars>>

\* The run loop body: events.push(ev); on run.completed drop the abort
\* controller and clear activeRunId; then next() resumes the generator.
LoopPush(r) ==
  /\ ~InSync
  /\ pc[r] = "yielding"
  /\ events' = [events EXCEPT ![r] = Push(@, inflight[r])]
  /\ pushed' = [pushed EXCEPT ![r] = Append(@, inflight[r])]
  /\ IF IsDone(inflight[r])
     THEN /\ abortControllers' = abortControllers \ {r}
          /\ activeRunId' = IF activeRunId = r THEN NoRun ELSE activeRunId
     ELSE UNCHANGED <<abortControllers, activeRunId>>
  /\ pc' = [pc EXCEPT ![r] = cont[r]]
  /\ inflight' = [inflight EXCEPT ![r] = NoEvent]
  /\ cont' = [cont EXCEPT ![r] = "none"]
  /\ UNCHANGED <<unitVars, envVars, provider, maxBuffer, aborted, nextRunId, thrown>>
  /\ UNCHANGED <<completed, cancelled, done, curEv, nativeCount, backendCalled>>
  /\ UNCHANGED <<resVars, histVars>>


\* What every generator step leaves alone.
GenFrame == UNCHANGED <<unitVars, envVars, provider, maxBuffer, activeRunId, abortControllers, aborted,
                        nextRunId, thrown, events, pushed, liveCancel>>

\* Builds the run.completed, optionally sets `completed = true`, and yields it.
YieldDone(r, d, k, setCompleted) ==
  /\ done' = [done EXCEPT ![r] = d]
  /\ completed' = [completed EXCEPT ![r] = setCompleted \/ @]
  /\ Yield(r, d, k)

\* After `yield run.started`: the native call.  Claude: normalizePrompt(req)
\* may throw, then queryFn() returns the stream or throws.  Codex: awaits
\* thread.runStreamed().
CallBackend(r) ==
  /\ pc[r] = "call_backend"
  /\ \/ /\ provider = "claude"
        /\ Goto(r, "catch")
        /\ UNCHANGED backendCalled
     \/ /\ provider = "claude"
        /\ backendCalled' = [backendCalled EXCEPT ![r] = TRUE]
        /\ \/ Goto(r, "await_msg")
           \/ Goto(r, "catch")
     \/ /\ provider = "codex"
        /\ backendCalled' = [backendCalled EXCEPT ![r] = TRUE]
        /\ Goto(r, "await_call")
  /\ UNCHANGED <<completed, cancelled, done, curEv, nativeCount, resVars>>
  /\ GenFrame

\* Codex: the promise of thread.runStreamed() settles.
CallSettles(r) ==
  /\ ~InSync
  /\ pc[r] = "await_call"
  /\ \/ Goto(r, "await_msg")
     \/ Goto(r, "catch")
  /\ UNCHANGED <<completed, cancelled, done, curEv, nativeCount, backendCalled, resVars>>
  /\ GenFrame

\* mapClaudeMessage: the unified events of one native message (at most one),
\* and the terminal status when the message is a result.
mapClaudeMessage(m) ==
  IF m = "stream_event" THEN [events |-> <<Ev("assistant.delta", "", m)>>, result |-> "none"]
  ELSE IF m = "result_success" THEN [events |-> <<>>, result |-> "success"]
  ELSE IF m = "result_error" THEN [events |-> <<>>, result |-> "error"]
  ELSE [events |-> <<>>, result |-> "none"]

\* CodexSession.mapEvent: the first unified event of one native event.
mapEvent(ev) ==
  IF ev = "item.started" THEN Ev("tool.call", "", ev)
  ELSE Ev("provider.event", "", ev)

\* The backend stream delivers native message m; the generator runs up to
\* its next yield.
BackendMessage(r, m) ==
  /\ ~InSync
  /\ pc[r] = "await_msg"
  /\ nativeCount[r] < MaxNative
  /\ nativeCount' = [nativeCount EXCEPT ![r] = @ + 1]
  /\ IF provider = "claude"
     THEN /\ m \in ClaudeMsgs
          /\ LET mapped == mapClaudeMessage(m) IN
             IF Len(mapped.events) > 0
             THEN Yield(r, mapped.events[1], "await_msg") /\ UNCHANGED <<done, completed>>
             ELSE IF mapped.result # "none"
             THEN YieldDone(r, Done(mapped.result, m), "resolve_break", TRUE)
             ELSE Yield(r, Ev("provider.event", "", m), "await_msg") /\ UNCHANGED <<done, completed>>
          /\ UNCHANGED curEv
     ELSE /\ m \in CodexEvents
          /\ curEv' = [curEv EXCEPT ![r] = m]
          /\ Yield(r, mapEvent(m), "after_map")
          /\ UNCHANGED <<done, completed>>
  /\ UNCHANGED <<cancelled, backendCalled, resVars>>
  /\ GenFrame

\* Codex, after `yield* this.mapEvent(...)`: the turn.completed, turn.failed
\* and error branches of the loop body.
AfterMap(r) ==
  /\ pc[r] = "after_map"
  /\ IF curEv[r] = "turn.completed"
     THEN YieldDone(r, Done("success", curEv[r]), "resolve_break", TRUE)
     ELSE IF curEv[r] = "turn.failed"
     THEN YieldDone(r, Done(StatusOf(aborted[r]), curEv[r]), "resolve_break", TRUE)
     ELSE IF curEv[r] = "error"
     THEN /\ IF ~aborted[r] THEN Yield(r, ErrorEv("error"), "error_done")
                            ELSE Goto(r, "error_done")
          /\ UNCHANGED <<done, completed>>
     ELSE Goto(r, "await_msg") /\ UNCHANGED <<done, completed>>
  /\ UNCHANGED <<cancelled, curEv, nativeCount, backendCalled, resVars>>
  /\ GenFrame

\* Codex, native error event: the run.completed built after the error event.
ErrorDone(r) ==
  /\ pc[r] = "error_done"
  /\ YieldDone(r, Done(StatusOf(aborted[r]), "error"), "resolve_break", TRUE)
  /\ UNCHANGED <<cancelled, curEv, nativeCount, backendCalled, resVars>>
  /\ GenFrame

\* After the terminal yield inside the loop: resolveResult(done); break.
\* The break closes the native iterator (awaits its return()).
ResolveBreak(r) ==
  /\ pc[r] = "resolve_break"
  /\ ResolveResult(r, done[r])
  /\ Goto(r, "teardown")
  /\ UNCHANGED <<completed, cancelled, done, curEv, nativeCount, backendCalled>>
  /\ GenFrame

\* The native iterator's return() settles: normally, or by throwing.
TeardownSettles(r) ==
  /\ ~InSync
  /\ pc[r] = "teardown"
  /\ \/ Goto(r, "after_loop")
     \/ Goto(r, "catch")
  /\ UNCHANGED <<completed, cancelled, done, curEv, nativeCount, backendCalled, resVars>>
  /\ GenFrame

\* The native stream ends without a terminal message.
BackendEnd(r) ==
  /\ ~InSync
  /\ pc[r] = "await_msg"
  /\ Goto(r, "after_loop")
  /\ UNCHANGED <<completed, cancelled, done, curEv, nativeCount, backendCalled, resVars>>
  /\ GenFrame

\* The native stream throws.
BackendThrow(r) ==
  /\ ~InSync
  /\ pc[r] = "await_msg"
  /\ Goto(r, "catch")
  /\ UNCHANGED <<completed, cancelled, done, curEv, nativeCount, backendCalled, resVars>>
  /\ GenFrame

\* After the for-await loop.
AfterLoop(r) ==
  /\ pc[r] = "after_loop"
  /\ IF completed[r]
     THEN Goto(r, "gen_finally") /\ UNCHANGED <<done, completed, cancelled>>
     ELSE IF provider = "claude"
     THEN /\ IF aborted[r]
             THEN YieldDone(r, Done("cancelled", "ended"), "resolve_end", TRUE)
             ELSE Yield(r, ErrorEv("ended"), "ended_done") /\ UNCHANGED <<done, completed>>
          /\ UNCHANGED cancelled
     ELSE /\ cancelled' = [cancelled EXCEPT ![r] = aborted[r]]
          /\ IF ~aborted[r] THEN Yield(r, ErrorEv("ended"), "ended_done")
                            ELSE Goto(r, "ended_done")
          /\ UNCHANGED <<done, completed>>
  /\ UNCHANGED <<curEv, nativeCount, backendCalled, resVars>>
  /\ GenFrame

\* "stream ended without a result": the run.completed after the error event.
EndedDone(r) ==
  /\ pc[r] = "ended_done"
  /\ YieldDone(r, Done(IF provider = "claude" THEN "error" ELSE StatusOf(cancelled[r]), "ended"),
               "resolve_end", TRUE)
  /\ UNCHANGED <<cancelled, curEv, nativeCount, backendCalled, resVars>>
  /\ GenFrame

\* resolveResult(done) after a terminal yield outside the loop.
ResolveEnd(r) ==
  /\ pc[r] = "resolve_end"
  /\ ResolveResult(r, done[r])
  /\ Goto(r, "gen_finally")
  /\ UNCHANGED <<completed, cancelled, done, curEv, nativeCount, backendCalled>>
  /\ GenFrame

\* catch (error): `cancelled` is read once; unless cancelled an error event
\* is yielded, whether or not a terminal event was already built.
Catch(r) ==
  /\ pc[r] = "catch"
  /\ cancelled' = [cancelled EXCEPT ![r] = aborted[r]]
  /\ IF ~aborted[r]
     THEN Yield(r, ErrorEv("catch"), "catch_done")
     ELSE Goto(r, "catch_done")
  /\ UNCHANGED <<completed, done, curEv, nativeCount, backendCalled, resVars>>
  /\ GenFrame

\* A catch block that synthesizes a terminal event without looking at `completed`.
NeedsTerminalAlways(r) == TRUE

\* `if (!completed)` of the catch block
NeedsTerminal(r) == ~completed[r]

\* catch (error), second half: synthesize the run.completed if none was built.
CatchDone(r) ==
  /\ pc[r] = "catch_done"
  /\ IF NeedsTerminal(r)
     THEN YieldDone(r, Done(StatusOf(cancelled[r]), "catch"), "resolve_end", FALSE)
     ELSE Goto(r, "gen_finally") /\ UNCHANGED <<done, completed>>
  /\ UNCHANGED <<cancelled, curEv, nativeCount, backendCalled, resVars>>
  /\ GenFrame

\* A cleanup that clears activeRunId without comparing it with its own run id.
CleanupUnguarded(r) ==
  /\ abortControllers' = abortControllers \ {r}
  /\ activeRunId' = NoRun

\* A cleanup that clears the whole map and activeRunId, whichever run it is for.
CleanupAll(r) ==
  /\ abortControllers' = {}
  /\ activeRunId' = NoRun

\* `this.abortControllers.delete(runId);
\*  if (this.activeRunId === runId) this.activeRunId = undefined;`
Cleanup(r) ==
  /\ abortControllers' = abortControllers \ {r}
  /\ activeRunId' = IF activeRunId = r THEN NoRun ELSE activeRunId

\* finally of runEvents; the generator then returns, and the run loop goes
\* on a tick later.  runEvents catches whatever its try block throws and
\* nothing outside that block throws, so the generator always returns and
\* the run loop's own catch clause is never entered.
GenFinally(r) ==
  /\ pc[r] = "gen_finally"
  /\ Cleanup(r)
  /\ Goto(r, "loop_exit")
  /\ UNCHANGED <<unitVars, envVars, provider, maxBuffer, aborted, nextRunId, thrown>>
  /\ UNCHANGED <<completed, cancelled, done, curEv, nativeCount, backendCalled>>
  /\ UNCHANGED <<resVars, chanVars, histVars>>

\* A finally block that forgets events.close().
CloseEventsSkipped(r) == UNCHANGED events

\* events.close()
CloseEvents(r) == events' = [events EXCEPT ![r] = Close(@)]

\* The run loop's finally, after the generator returned.
LoopExit(r) ==
  /\ ~InSync
  /\ pc[r] = "loop_exit"
  /\ Cleanup(r)
  /\ CloseEvents(r)
  /\ Goto(r, "done")
  /\ UNCHANGED <<unitVars, envVars, provider, maxBuffer, aborted, nextRunId, thrown, pushed>>
  /\ UNCHANGED <<completed, cancelled, done, curEv, nativeCount, backendCalled>>
  /\ UNCHANGED <<resVars, histVars>>

\* ------------------------------------------------------------- cancel()
\* A cancel reaches run r while it streams and before its terminal event.
LiveFor(r) == nativeCount[r] > 0 /\ ~TerminalProduced(r)

\* A cancel(runId) that also drops the handle and frees the session at once.
SessionCancelSync(r) ==
  /\ ~InSync
  /\ Started(r)
  /\ aborted' = [aborted EXCEPT ![r] = @ \/ (r \in abortControllers)]
  /\ liveCancel' = [liveCancel EXCEPT ![r] = @ \/ (r \in abortControllers /\ LiveFor(r))]
  /\ Cleanup(r)
  /\ UNCHANGED <<unitVars, envVars, provider, maxBuffer, nextRunId, thrown>>
  /\ UNCHANGED <<genVars, resVars, chanVars>>

\* session.cancel(runId): `this.abortControllers.get(runId)?.abort()`
SessionCancel(r) ==
  /\ ~InSync
  /\ Started(r)
  /\ aborted' = [aborted EXCEPT ![r] = @ \/ (r \in abortControllers)]
  /\ liveCancel' = [liveCancel EXCEPT ![r] = @ \/ (r \in abortControllers /\ LiveFor(r))]
  /\ UNCHANGED <<unitVars, envVars, provider, maxBuffer, activeRunId, abortControllers, nextRunId, thrown>>
  /\ UNCHANGED <<genVars, resVars, chanVars>>

\* session.cancel(): every controller in the map is aborted.
SessionCancelAll ==
  /\ ~InSync
  /\ aborted' = [r \in RunIds |-> aborted[r] \/ (r \in abortControllers)]
  /\ liveCancel' = [r \in RunIds |-> liveCancel[r] \/ (r \in abortControllers /\ LiveFor(r))]
  /\ UNCHANGED <<unitVars, envVars, provider, maxBuffer, activeRunId, abortControllers, nextRunId, thrown>>
  /\ UNCHANGED <<genVars, resVars, chanVars>>

\* RunHandle.cancel(): `abortController.abort()` on the run's own controller.
HandleCancel(r) ==
  /\ ~InSync
  /\ Started(r)
  /\ aborted' = [aborted EXCEPT ![r] = TRUE]
  /\ liveCancel' = [liveCancel EXCEPT ![r] = @ \/ LiveFor(r)]
  /\ UNCHANGED <<unitVars, envVars, provider, maxBuffer, activeRunId, abortControllers, nextRunId, thrown>>
  /\ UNCHANGED <<genVars, resVars, chanVars>>

\* ------------------------------------------------------------- consumer
ConsumerFrame == UNCHANGED <<unitVars, envVars, provider, maxBuffer, activeRunId, abortControllers, aborted,
                             nextRunId, thrown, genVars, resVars, pushed, histVars>>

\* run.events[Symbol.asyncIterator]()
CreateIterator(r) ==
  /\ ~InSync
  /\ Started(r)
  /\ events' = [events EXCEPT ![r] = Iterate(@).stream]
  /\ ConsumerFrame

\* iterator.next()
ConsumerNext(r) ==
  /\ ~InSync
  /\ events[r].iteratorCreated
  /\ ~events[r].ended
  /\ events[r].pending < MaxPending
  /\ events' = [events EXCEPT ![r] = IterNext(@)]
  /\ ConsumerFrame

\* iterator.return(): the consumer abandons the stream.
ConsumerReturn(r) ==
  /\ ~InSync
  /\ events[r].iteratorCreated
  /\ ~events[r].returned
  /\ events' = [events EXCEPT ![r] = IterReturn(@)]
  /\ ConsumerFrame

\* ----------------------------------------------------------------- Next
TaskStep(r) ==
  \/ LoopPush(r)
  \/ CallBackend(r)
  \/ AfterMap(r)
  \/ ErrorDone(r)
  \/ ResolveBreak(r)
  \/ AfterLoop(r)
  \/ EndedDone(r)
  \/ ResolveEnd(r)
  \/ Catch(r)
  \/ CatchDone(r)
  \/ GenFinally(r)
  \/ LoopExit(r)

BackendStep(r) ==
  \/ CallSettles(r)
  \/ \E m \in ClaudeMsgs \cup CodexEvents : BackendMessage(r, m)
  \/ BackendEnd(r)
  \/ BackendThrow(r)
  \/ TeardownSettles(r)

Next ==
  \/ Run
  \/ \E r \in RunIds : TaskStep(r)
  \/ \E r \in RunIds : BackendStep(r)
  \/ \E r \in RunIds : SessionCancel(r)
  \/ SessionCancelAll
  \/ \E r \in RunIds : HandleCancel(r)
  \/ \E r \in RunIds : CreateIterator(r)
  \/ \E r \in RunIds : ConsumerNext(r)
  \/ \E r \in RunIds : ConsumerReturn(r)

Spec == Init /\ [][Next]_vars

\* The cooperative scheduler runs every ready task, and a native stream
\* ends, throws or yields a terminal event (and its return() settles).
FairSpec ==
  /\ Spec
  /\ \A r \in RunIds : WF_vars(TaskStep(r))
  /\ \A r \in RunIds : WF_vars(BackendStep(r))


\* =================================================================
\* AsyncEventStream on its own
\* =================================================================
\* A session on which run() is never called.
SessionUnused ==
  /\ InitSession
  /\ provider = "claude"
  /\ maxBuffer = 1
  /\ runLimit = 0
  /\ signal = [r \in RunIds |-> "none"]

\* new AsyncEventStream({ maxBuffer })
StreamInit ==
  /\ SessionUnused
  /\ PermUnused
  /\ ExtUnused
  /\ \E cap \in 0..MaxCap : stream = NewStream(cap)
  /\ slog = NoLog

StreamFrame == UNCHANGED <<runVars, envVars, permVars, extVars>>

\* stream.push(v): the values pushed are 1, 2, 3, ... in call order.
StreamPush ==
  /\ Len(slog.items) < MaxItems
  /\ LET v == Len(slog.items) + 1 IN
       /\ stream' = Push(stream, v)
       /\ slog' = [slog EXCEPT !.items = Append(@, v)]
  /\ StreamFrame

\* stream.close()
StreamClose ==
  /\ slog.closes < MaxCalls
  /\ stream' = Close(stream)
  /\ slog' = [slog EXCEPT !.closes = @ + 1,
                           !.closedAt = IF stream.closed THEN @ ELSE Len(slog.items),
                           !.woken = IF stream.closed THEN @ ELSE stream.pending]
  /\ StreamFrame

\* stream[Symbol.asyncIterator]()
StreamIterate ==
  /\ slog.iterCalls < MaxCalls
  /\ LET it == Iterate(stream) IN
       /\ stream' = it.stream
       /\ slog' = [slog EXCEPT !.iterCalls = @ + 1,
                                !.iterThrows = IF it.threw THEN @ + 1 ELSE @]
  /\ StreamFrame

\* iterator.next()
StreamNext ==
  /\ stream.iteratorCreated
  /\ stream.pending < MaxWaiters
  /\ stream' = IterNext(stream)
  /\ slog' = [slog EXCEPT !.earlyNext = @ \/ ~stream.closed]
  /\ StreamFrame

\* iterator.return()
StreamReturn ==
  /\ stream.iteratorCreated
  /\ ~stream.returned
  /\ stream' = IterReturn(stream)
  /\ slog' = [slog EXCEPT !.closedAt = IF stream.closed THEN @ ELSE Len(slog.items),
                           !.woken = IF stream.closed THEN @ ELSE stream.pending]
  /\ StreamFrame

StreamNextStep ==
  \/ StreamPush
  \/ StreamClose
  \/ StreamIterate
  \/ StreamNext
  \/ StreamReturn

StreamSpec == StreamInit /\ [][StreamNextStep]_vars


\* =================================================================
\* Runs one after another on one session
\* =================================================================
\* The caller starts up to MaxSeqRuns runs and never iterates run.events.
SeqInit ==
  /\ InitSession
  /\ maxBuffer = MaxCap
  /\ runLimit = MaxSeqRuns
  /\ signal = [r \in RunIds |-> "none"]
  /\ StreamUnused
  /\ PermUnused
  /\ ExtUnused

\* The backend of a run whose native stream is at most MaxSeqNative messages long.
ShortBackendStep(r) ==
  \/ CallSettles(r)
  \/ \E m \in ClaudeMsgs \cup CodexEvents : nativeCount[r] < MaxSeqNative /\ BackendMessage(r, m)
  \/ BackendEnd(r)
  \/ BackendThrow(r)
  \/ TeardownSettles(r)

SeqNext ==
  \/ Run
  \/ \E r \in RunIds : TaskStep(r)
  \/ \E r \in RunIds : ShortBackendStep(r)
  \/ \E r \in RunIds : SessionCancel(r)
  \/ SessionCancelAll

SeqSpec == SeqInit /\ [][SeqNext]_vars


\* =================================================================
\* RunConfig.signal and dispose()
\* =================================================================
\* The caller may pass an AbortSignal of its own in RunConfig.signal.
Signals == {"none", "live", "aborted"}

\* One run, with or without a signal, on a session that may be disposed.
LifeInit ==
  /\ InitSession
  /\ maxBuffer = MaxCap
  /\ runLimit = MaxRuns
  /\ signal \in [RunIds -> Signals \ {"aborted"}]
  /\ \A r \in RunIds : r > runLimit => signal[r] = "none"
  /\ StreamUnused
  /\ PermUnused
  /\ ExtUnused

\* The caller aborts its signal.  run() registered
\* `signal.addEventListener("abort", () => abortController.abort(...))` if it
\* was called with this signal, so the listener runs iff run() came first; a
\* signal aborted before run() dispatches no event later.
SignalAbort(r) ==
  /\ ~InSync
  /\ signal[r] = "live"
  /\ signal' = [signal EXCEPT ![r] = "aborted"]
  /\ aborted' = [aborted EXCEPT ![r] = @ \/ Started(r)]
  /\ liveCancel' = [liveCancel EXCEPT ![r] = @ \/ (Started(r) /\ LiveFor(r))]
  /\ UNCHANGED <<unitVars, runLimit, disposed, provider, maxBuffer, activeRunId,
                 abortControllers, nextRunId, thrown>>
  /\ UNCHANGED <<genVars, resVars, chanVars>>

\* session.dispose(): `async dispose(): Promise<void> {}`
Dispose ==
  /\ ~InSync
  /\ ~disposed
  /\ disposed' = TRUE
  /\ UNCHANGED <<unitVars, runLimit, signal, runVars>>

LifeNext ==
  \/ Run
  \/ \E r \in RunIds : TaskStep(r)
  \/ \E r \in RunIds : BackendStep(r)
  \/ \E r \in RunIds : SignalAbort(r)
  \/ Dispose

LifeSpec == LifeInit /\ [][LifeNext]_vars


\* =================================================================
\* Unified permissions
\* =================================================================
\* A flag of PermissionsConfig as the caller wrote it.
Tri == {"true", "false", "undefined"}

\* Boolean(x)
Boolean(x) == x = "true"

\* A normalisation that takes the flags literally, yolo or not.
normalizePermissionsLiteral(input) ==
  [yolo |-> Boolean(input.yolo), network |-> Boolean(input.network),
   write |-> Boolean(input.write), sandbox |-> Boolean(input.sandbox)]

normalizePermissions(input) ==
  LET yolo == Boolean(input.yolo) IN
    [yolo |-> yolo,
     network |-> IF yolo THEN TRUE ELSE Boolean(input.network),
     write |-> IF yolo THEN TRUE ELSE Boolean(input.write),
     sandbox |-> IF yolo THEN FALSE ELSE Boolean(input.sandbox)]

\* A mapping that looks at the sandbox flag before the write flag.
mapUnifiedPermissionsToCodexSandboxFirst(input) ==
  LET p == normalizePermissions(input) IN
    [mapped |-> TRUE,
     approvalPolicy |-> "never",
     sandboxMode |-> IF p.yolo THEN "danger-full-access"
                     ELSE IF ~p.sandbox THEN "danger-full-access"
                     ELSE IF p.write THEN "workspace-write"
                     ELSE "read-only",
     networkAccessEnabled |-> p.network,
     webSearchEnabled |-> p.network]

mapUnifiedPermissionsToCodex(input) ==
  LET p == normalizePermissions(input) IN
    [mapped |-> TRUE,
     approvalPolicy |-> "never",
     sandboxMode |-> IF p.yolo THEN "danger-full-access"
                     ELSE IF ~p.write THEN "read-only"
                     ELSE IF p.sandbox THEN "workspace-write"
                     ELSE "danger-full-access",
     networkAccessEnabled |-> p.network,
     webSearchEnabled |-> p.network]

\* The disallowedTools array, in the order it is built.
disallowedTools(p) ==
  <<"AskUserQuestion">>
    \o (IF ~p.network THEN <<"WebFetch", "WebSearch">> ELSE <<>>)
    \o (IF ~p.write THEN <<"Write", "Edit", "NotebookEdit", "KillShell">> ELSE <<>>)

\* disallowedTools.includes(toolName)
Includes(list, x) == \E i \in 1..Len(list) : list[i] = x

\* The options object; canUseTool is "gate" when the decision function is
\* installed.  Properties the yolo branch leaves out read as FALSE / <<>>.
mapUnifiedPermissionsToClaude(input) ==
  LET p == normalizePermissions(input) IN
    IF p.yolo
    THEN [mapped |-> TRUE, permissionMode |-> "bypassPermissions",
          allowDangerouslySkipPermissions |-> TRUE, canUseTool |-> "undefined",
          sandboxEnabled |-> FALSE, disallowedTools |-> <<>>]
    ELSE [mapped |-> TRUE, permissionMode |-> "default",
          allowDangerouslySkipPermissions |-> FALSE, canUseTool |-> "gate",
          sandboxEnabled |-> p.sandbox, disallowedTools |-> disallowedTools(p)]

isWriteLikeTool(toolName) == toolName \in {"Write", "Edit", "NotebookEdit"}

\* path.startsWith(prefix), on sequences of characters
StartsWith(path, prefix) ==
  Len(prefix) <= Len(path) /\ SubSeq(path, 1, Len(prefix)) = prefix

\* `r.endsWith("/") ? r : r + "/"`
WithSlash(r) == IF Len(r) > 0 /\ r[Len(r)] = "/" THEN r ELSE Append(r, "/")

\* The roots: cwd and the additional directories that are non-empty strings.
Roots(ws) ==
  (IF ws.cwd.type = "string" /\ ws.cwd.text # <<>> THEN {ws.cwd.text} ELSE {})
    \cup {ws.additionalDirs[i].text : i \in {j \in 1..Len(ws.additionalDirs) :
            ws.additionalDirs[j].type = "string" /\ ws.additionalDirs[j].text # <<>>}}

\* A root test that finds no path inside a workspace without roots.
isPathWithinWorkspaceNoRoots(path, ws) ==
  \E r \in Roots(ws) : path = r \/ StartsWith(path, WithSlash(r))

\* A root test by plain string prefix, without the "/" boundary.
isPathWithinWorkspacePrefix(path, ws) ==
  \/ Roots(ws) = {}
  \/ \E r \in Roots(ws) : path = r \/ StartsWith(path, r)

isPathWithinWorkspace(path, ws) ==
  \/ Roots(ws) = {}
  \/ \E r \in Roots(ws) : path = r \/ StartsWith(path, WithSlash(r))

\* A command is the sequence of its whitespace-separated words.  The regular
\* expressions are read word by word: \b(a|b)\b finds one of the words, a\s+b
\* finds two words in a row, ^\s*(a|b)\b looks at the first word.
HasWord(c, ws) == \E i \in 1..Len(c) : c[i] \in ws
HasPair(c, first, second) == \E i \in 1..(Len(c) - 1) : c[i] \in first /\ c[i + 1] \in second

Redirections == {">", "<"}
MutatingUtilities == {"rm", "mv", "cp", "mkdir", "rmdir", "touch", "chmod", "chown", "chgrp",
                      "ln", "dd", "truncate", "kill", "pkill", "xargs"}
InPlaceEditors == {"sed", "perl"}
MutatingGitVerbs == {"commit", "push", "checkout", "switch", "reset", "clean", "rebase",
                     "merge", "apply", "cherry-pick", "tag", "stash"}
NetworkUtilities == {"curl", "wget", "nc", "ncat", "ssh", "scp", "sftp", "rsync"}
NetworkGitVerbs == {"clone", "fetch", "pull"}
ReadOnlyCommands == {"ls", "pwd", "whoami", "id", "uname", "cat", "head", "tail", "wc", "stat",
                     "rg", "grep", "find"}
ReadOnlyGitVerbs == {"status", "diff", "log", "show"}

\* What a pattern written with doubled backslashes inside a regex literal
\* finds: the text backslash, b, word, backslash, b itself.
EscapedTee == {"\\btee\\b"}
EscapedMutating == {"\\brm\\b", "\\bmv\\b", "\\bcp\\b"}

\* The property `name` of toolInput, when toolInput is a plain object.
InputProperty(toolInput, name) ==
  IF toolInput.kind # "object" THEN Absent
  ELSE IF name = "command" THEN toolInput.command
  ELSE toolInput.file_path

\* `typeof v === "string" && v.trim()` for commands, `typeof v === "string" && v` for paths
NonEmptyString(v) == v.type = "string" /\ v.text # <<>>

\* Its four patterns are regex literals with doubled backslashes; the second
\* to fourth find only commands that spell out the backslashes.
isMutatingBashToolInput(toolInput) ==
  LET command == InputProperty(toolInput, "command") IN
    IF ~NonEmptyString(command) THEN FALSE
    ELSE \/ HasWord(command.text, Redirections \cup EscapedTee)
         \/ HasWord(command.text, EscapedMutating)

\* A read-only test that never looks for network commands.
isReadOnlyBashCommandAnyNetwork(c, allowNetwork) ==
  IF c = <<>> THEN FALSE
  ELSE IF HasWord(c, Redirections \cup EscapedTee) THEN FALSE
  ELSE IF HasWord(c, MutatingUtilities) THEN FALSE
  ELSE IF HasPair(c, InPlaceEditors, {"-i"}) \/ HasPair(c, {"python"}, {"-c"})
          \/ HasPair(c, {"node"}, {"-e"}) THEN FALSE
  ELSE IF HasPair(c, {"git"}, MutatingGitVerbs) THEN FALSE
  ELSE IF c[1] \in ReadOnlyCommands THEN TRUE
  ELSE IF Len(c) >= 2 /\ c[1] = "git" /\ c[2] \in ReadOnlyGitVerbs THEN TRUE
  ELSE FALSE

isReadOnlyBashCommand(c, allowNetwork) ==
  IF c = <<>> THEN FALSE
  ELSE IF HasWord(c, Redirections \cup EscapedTee) THEN FALSE
  ELSE IF HasWord(c, MutatingUtilities) THEN FALSE
  ELSE IF HasPair(c, InPlaceEditors, {"-i"}) \/ HasPair(c, {"python"}, {"-c"})
          \/ HasPair(c, {"node"}, {"-e"}) THEN FALSE
  ELSE IF HasPair(c, {"git"}, MutatingGitVerbs) THEN FALSE
  ELSE IF ~allowNetwork /\ (HasWord(c, NetworkUtilities) \/ HasPair(c, {"git"}, NetworkGitVerbs))
       THEN FALSE
  ELSE IF c[1] \in ReadOnlyCommands THEN TRUE
  ELSE IF Len(c) >= 2 /\ c[1] = "git" /\ c[2] \in ReadOnlyGitVerbs THEN TRUE
  ELSE FALSE

\* A deny that interrupts the run.
DenyInterrupting(message) ==
  [behavior |-> "deny", message |-> message, interrupt |-> "true", updatedInput |-> NoInput]

\* `deny(message)`: { behavior: "deny", message, interrupt: false }
Deny(message) ==
  [behavior |-> "deny", message |-> message, interrupt |-> "false", updatedInput |-> NoInput]

\* An allow that always answers with an empty object.
AllowEmpty(toolInput) ==
  [behavior |-> "allow", message |-> "", interrupt |-> "absent",
   updatedInput |-> [kind |-> "object", command |-> Absent, file_path |-> Absent]]

\* { behavior: "allow", updatedInput }: the input itself when it is a plain object, else {}
Allow(toolInput) ==
  [behavior |-> "allow", message |-> "", interrupt |-> "absent",
   updatedInput |-> IF toolInput.kind = "object" THEN toolInput
                    ELSE [kind |-> "object", command |-> Absent, file_path |-> Absent]]

\* A decision function without the disallow-list test.
canUseToolNoList(p, ws, toolName, toolInput, meta) ==
  LET blockedPath == IF meta.kind = "object" THEN meta.blockedPath ELSE Absent
      requestedPath == InputProperty(toolInput, "file_path")
      path == IF NonEmptyString(blockedPath) THEN blockedPath
              ELSE IF NonEmptyString(requestedPath) THEN requestedPath ELSE Absent
      isWriteTarget == IF toolName = "Bash" THEN isMutatingBashToolInput(toolInput)
                       ELSE isWriteLikeTool(toolName)
      command == InputProperty(toolInput, "command")
  IN
    IF /\ p.sandbox /\ p.write
       /\ path.type = "string" /\ isWriteTarget /\ ~isPathWithinWorkspace(path.text, ws)
      THEN Deny("outside the session workspace")
    ELSE IF toolName = "Bash" /\ ~p.write /\ ~NonEmptyString(command)
      THEN Deny("Bash command is missing")
    ELSE IF toolName = "Bash" /\ ~p.write /\ ~isReadOnlyBashCommand(command.text, p.network)
      THEN Deny("Bash command denied")
    ELSE Allow(toolInput)

\* A decision function whose scoping rule asks for sandbox alone.
canUseToolScopeReadOnly(p, ws, toolName, toolInput, meta) ==
  LET blockedPath == IF meta.kind = "object" THEN meta.blockedPath ELSE Absent
      requestedPath == InputProperty(toolInput, "file_path")
      path == IF NonEmptyString(blockedPath) THEN blockedPath
              ELSE IF NonEmptyString(requestedPath) THEN requestedPath ELSE Absent
      isWriteTarget == IF toolName = "Bash" THEN isMutatingBashToolInput(toolInput)
                       ELSE isWriteLikeTool(toolName)
      command == InputProperty(toolInput, "command")
  IN
    IF Includes(disallowedTools(p), toolName)
      THEN Deny("disabled by unified permissions")
    ELSE IF /\ p.sandbox
            /\ path.type = "string" /\ isWriteTarget /\ ~isPathWithinWorkspace(path.text, ws)
      THEN Deny("outside the session workspace")
    ELSE IF toolName = "Bash" /\ ~p.write /\ ~NonEmptyString(command)
      THEN Deny("Bash command is missing")
    ELSE IF toolName = "Bash" /\ ~p.write /\ ~isReadOnlyBashCommand(command.text, p.network)
      THEN Deny("Bash command denied")
    ELSE Allow(toolInput)

\* The canUseTool closure of the non-yolo branch.
canUseTool(p, ws, toolName, toolInput, meta) ==
  LET blockedPath == IF meta.kind = "object" THEN meta.blockedPath ELSE Absent
      requestedPath == InputProperty(toolInput, "file_path")
      path == IF NonEmptyString(blockedPath) THEN blockedPath
              ELSE IF NonEmptyString(requestedPath) THEN requestedPath ELSE Absent
      isWriteTarget == IF toolName = "Bash" THEN isMutatingBashToolInput(toolInput)
                       ELSE isWriteLikeTool(toolName)
      command == InputProperty(toolInput, "command")
  IN
    IF Includes(disallowedTools(p), toolName)
      THEN Deny("disabled by unified permissions")
    ELSE IF /\ p.sandbox /\ p.write
            /\ path.type = "string" /\ isWriteTarget /\ ~isPathWithinWorkspace(path.text, ws)
      THEN Deny("outside the session workspace")
    ELSE IF toolName = "Bash" /\ ~p.write /\ ~NonEmptyString(command)
      THEN Deny("Bash command is missing")
    ELSE IF toolName = "Bash" /\ ~p.write /\ ~isReadOnlyBashCommand(command.text, p.network)
      THEN Deny("Bash command denied")
    ELSE Allow(toolInput)

\* ---- the inputs tried
ToolNames == {"AskUserQuestion", "WebFetch", "WebSearch", "Write", "Edit", "NotebookEdit",
              "KillShell", "Bash", "Read"}

Words == {"ls", "cat", "rm", "tee", ">", "sed", "-i", "git", "status", "push", "pull",
          "curl", "\\brm\\b", "f"}

Commands == UNION {[1..n -> Words] : n \in 0..MaxTokens}

\* /w, /w/a, /wx (shares a string prefix with /w), /t and the empty string
Paths == {<<"/", "w">>, <<"/", "w", "/", "a">>, <<"/", "w", "x">>, <<"/", "t">>, <<>>}

Workspaces ==
  {NoWorkspace,
   [cwd |-> Str(<<"/", "w">>), additionalDirs |-> <<>>],
   [cwd |-> Str(<<"/", "w", "/">>), additionalDirs |-> <<>>],
   [cwd |-> Str(<<>>), additionalDirs |-> <<Str(<<"/", "t">>), NonString>>]}

BashInputs ==
  {[kind |-> "object", command |-> c, file_path |-> Absent] :
     c \in {Str(w) : w \in Commands} \cup {Absent, NonString}}

FileInputs ==
  {[kind |-> "object", command |-> Absent, file_path |-> f] :
     f \in {Str(q) : q \in Paths} \cup {Absent, NonString}}

\* Inputs that are no plain object: an array, a primitive, nothing at all.
OtherInputs == {[kind |-> k, command |-> Absent, file_path |-> Absent] :
                  k \in {"array", "primitive", "missing"}}

Metas == {NoMeta,
          [kind |-> "object", blockedPath |-> Absent],
          [kind |-> "object", blockedPath |-> Str(<<"/", "t">>)],
          [kind |-> "object", blockedPath |-> Str(<<"/", "w", "/", "a">>)]}

\* A session of either adapter is opened with permissions and a workspace;
\* run() is left to the other specifications.
PermInit ==
  /\ InitSession
  /\ maxBuffer = 1
  /\ runLimit = 0
  /\ signal = [r \in RunIds |-> "none"]
  /\ StreamUnused
  /\ permissions \in [yolo : Tri, network : Tri, sandbox : Tri, write : Tri]
  /\ workspace \in Workspaces
  /\ codexOptions = NoCodexOptions
  /\ claudeOptions = NoClaudeOptions
  /\ toolCall = NoToolCall
  /\ decision = NoDecision
  /\ ExtUnused

PermFrame == UNCHANGED <<runVars, envVars, streamVars, extVars, permissions, workspace>>

\* CodexRuntime.openSession: `permissions ? mapUnifiedPermissionsToCodex(permissions) : {}`
MapCodex ==
  /\ provider = "codex"
  /\ ~codexOptions.mapped
  /\ codexOptions' = mapUnifiedPermissionsToCodex(permissions)
  /\ UNCHANGED <<claudeOptions, toolCall, decision>>
  /\ PermFrame

\* ClaudeSession.runEvents: `mapUnifiedPermissionsToClaude(this.permissions, { cwd, additionalDirs })`
MapClaude ==
  /\ provider = "claude"
  /\ ~claudeOptions.mapped
  /\ claudeOptions' = mapUnifiedPermissionsToClaude(permissions)
  /\ UNCHANGED <<codexOptions, toolCall, decision>>
  /\ PermFrame

\* The Claude SDK asks the installed gate about a tool call.  The gate keeps
\* no state between calls, so one call per behaviour shows every decision.
CanUseTool(toolName, toolInput, meta) ==
  /\ toolCall = NoToolCall
  /\ claudeOptions.mapped
  /\ claudeOptions.canUseTool = "gate"
  /\ toolCall' = [toolName |-> toolName, toolInput |-> toolInput, meta |-> meta]
  /\ decision' = canUseTool(normalizePermissions(permissions), workspace, toolName, toolInput, meta)
  /\ UNCHANGED <<codexOptions, claudeOptions>>
  /\ PermFrame

PermNext ==
  \/ MapCodex
  \/ MapClaude
  \/ \E toolInput \in BashInputs, meta \in Metas : CanUseTool("Bash", toolInput, meta)
  \/ \E toolName \in ToolNames, toolInput \in FileInputs \cup OtherInputs, meta \in Metas :
       CanUseTool(toolName, toolInput, meta)

PermSpec == PermInit /\ [][PermNext]_vars


\* =================================================================
\* Opening a session
\* =================================================================
\* assertWorkspaceExists(defaultOpts) of the interactive config loader:
\* stat() of cwd, when it is a string, and of every additional directory
\* must succeed and find a directory; TRUE when it returns, FALSE when it
\* throws.  A root is "dir", "file" or "missing" by what the file system
\* holds at its path.
assertWorkspaceExists(o) ==
  /\ o.cwd \in {"absent", "dir"}
  /\ \A i \in 1..Len(o.additionalDirs) : o.additionalDirs[i] = "dir"

\* A caller about to open a session, directly through the runtime or
\* through the interactive config loader, with a workspace of one or two roots.
OpenInit ==
  /\ InitSession
  /\ maxBuffer = 1
  /\ runLimit = 0
  /\ signal = [r \in RunIds |-> "none"]
  /\ StreamUnused
  /\ PermUnused
  /\ mapping = [r \in RunIds |-> NoMapping]
  /\ unwrapped = NoUnwrap
  /\ resume = NoResume
  /\ opening \in [via : {"sdk", "interactive"}, cwd : {"absent", "dir", "file", "missing"},
                  additionalDirs : UNION {[1..n -> {"dir", "file", "missing"}] : n \in 0..MaxDirs},
                  stage : {"start"}]

\* loadInteractiveConfig: `await assertWorkspaceExists(defaultOpts)` rejects
\* the configuration or lets it through.
LoadInteractiveConfig ==
  /\ opening.via = "interactive"
  /\ opening.stage = "start"
  /\ opening' = [opening EXCEPT !.stage = IF assertWorkspaceExists(opening) THEN "loaded" ELSE "failed"]
  /\ UNCHANGED <<runLimit, runVars, signal, disposed, streamVars, permVars, mapping, unwrapped, resume>>

\* ClaudeRuntime.openSession / CodexRuntime.openSession: hands the workspace
\* to the session (Claude) or to codex.startThread (Codex) and returns the
\* session, on which run() can be called from then on.
OpenSession ==
  /\ \/ opening.via = "sdk" /\ opening.stage = "start"
     \/ opening.stage = "loaded"
  /\ opening' = [opening EXCEPT !.stage = "opened"]
  /\ runLimit' = MaxRuns
  /\ UNCHANGED <<runVars, signal, disposed, streamVars, permVars, mapping, unwrapped, resume>>

OpenNext ==
  \/ LoadInteractiveConfig
  \/ OpenSession
  \/ Run
  \/ \E r \in RunIds : TaskStep(r)
  \/ \E r \in RunIds : ShortBackendStep(r)

OpenSpec == OpenInit /\ [][OpenNext]_vars


\* =================================================================
\* The structured-output normaliser
\* =================================================================
\* "value" in value, and value.value
HasKey(v, k) == \E i \in 1..Len(v.props) : v.props[i].key = k
ValueOf(v, k) == v.props[CHOOSE i \in 1..Len(v.props) : v.props[i].key = k].val

\* A fallback that takes the single property whatever its type.
unwrapFallbackAnyProperty(rootType, value) ==
  IF value.kind # "object" THEN value
  ELSE IF Len(value.props) # 1 THEN value
  ELSE value.props[1].val

\* unwrapFallbackSingleProperty of runtime-core: an object with exactly one
\* key gives that property's value when it has the root type asked for.
unwrapFallbackSingleProperty(rootType, value) ==
  IF value.kind # "object" THEN value
  ELSE IF Len(value.props) # 1 THEN value
  ELSE LET candidate == value.props[1].val IN
    IF rootType = "array" THEN (IF candidate.kind = "array" THEN candidate ELSE value)
    ELSE IF rootType = "string" THEN (IF candidate.kind = "string" THEN candidate ELSE value)
    ELSE IF rootType = "number"
      THEN (IF candidate.kind \in {"number", "integer"} THEN candidate ELSE value)
    ELSE IF rootType = "integer" THEN (IF candidate.kind = "integer" THEN candidate ELSE value)
    ELSE IF rootType = "boolean" THEN (IF candidate.kind = "boolean" THEN candidate ELSE value)
    ELSE IF rootType = "null" THEN (IF candidate.kind = "null" THEN candidate ELSE value)
    ELSE value

\* The unwrapStructuredOutput that normalizeStructuredOutputSchema(schema)
\* returns, in runtime-core ("runtime-core") and in the copies the two
\* adapters keep ("adapter"); rootType is schema.type, "absent" when the
\* schema has none and "noschema" when there is no schema.
unwrapStructuredOutput(copy, rootType, value) ==
  IF rootType \in {"noschema", "object"} THEN value
  ELSE IF value.kind = "object" /\ HasKey(value, "value") THEN ValueOf(value, "value")
  ELSE IF copy = "runtime-core" THEN unwrapFallbackSingleProperty(rootType, value)
  ELSE value

\* The values tried: every kind of value, and the plain objects of up to
\* MaxProps properties with distinct keys ({} is Leaf("object")).
JsonValues ==
  LET kinds == {"undefined", "null", "string", "number", "integer", "boolean", "array", "object"}
      leaves == {Leaf(k) : k \in kinds}
  IN leaves
       \cup {Obj(p) : p \in {q \in UNION {[1..n -> [key : {"value", "a", "b"}, val : leaves]] :
                                            n \in 1..MaxProps} :
                               \A i, j \in 1..Len(q) : i # j => q[i].key # q[j].key}}

UnwrapInit ==
  /\ SessionUnused
  /\ StreamUnused
  /\ PermUnused
  /\ mapping = [r \in RunIds |-> NoMapping]
  /\ opening = Opened
  /\ resume = NoResume
  /\ unwrapped \in [copy : {"runtime-core", "adapter"},
                    rootType : {"noschema", "absent", "object", "array", "string", "number",
                                "integer", "boolean", "null"},
                    value : JsonValues, out : {Leaf("undefined")}, called : {FALSE}]

\* unwrapStructuredOutput(value) is called on the backend's structured output.
Unwrap ==
  /\ ~unwrapped.called
  /\ unwrapped' = [unwrapped EXCEPT
                     !.out = unwrapStructuredOutput(unwrapped.copy, unwrapped.rootType, unwrapped.value),
                     !.called = TRUE]
  /\ UNCHANGED <<runVars, envVars, streamVars, permVars, mapping, opening, resume>>

UnwrapSpec == UnwrapInit /\ [][Unwrap]_vars


\* =================================================================
\* Codex: completed items
\* =================================================================
\* `change.kind === "add" || ... === "delete" || ... === "update" ? change.kind : "unknown"`
FileChanged(change) ==
  [type |-> "file.changed", status |-> "", raw |-> "item.completed",
   change |-> [path |-> change.path,
               kind |-> IF change.kind \in {"add", "delete", "update"} THEN change.kind
                        ELSE "unknown"]]

\* A mapping of completed items that reports the changes of a failed patch too.
mapItemCompletedAnyStatus(item) ==
  IF item.type = "agent_message" THEN <<Ev("assistant.message", "", "item.completed")>>
  ELSE IF item.type = "file_change"
    THEN [i \in 1..Len(item.changes) |-> FileChanged(item.changes[i])]
  ELSE IF item.type \in {"command_execution", "mcp_tool_call", "web_search"}
    THEN <<Ev("tool.result", "", "item.completed")>>
  ELSE <<Ev("provider.event", "", "item.completed")>>

\* CodexSession.mapEvent for an item.completed event: the unified events it
\* yields, in order.
mapItemCompleted(item) ==
  IF item.type = "agent_message" THEN <<Ev("assistant.message", "", "item.completed")>>
  ELSE IF item.type = "file_change"
    THEN IF item.status = "completed"
         THEN [i \in 1..Len(item.changes) |-> FileChanged(item.changes[i])]
         ELSE <<ErrorEv("patch_failed")>>
  ELSE IF item.type \in {"command_execution", "mcp_tool_call", "web_search"}
    THEN <<Ev("tool.result", "", "item.completed")>>
  ELSE <<Ev("provider.event", "", "item.completed")>>

\* The completed items tried: patches of up to MaxChanges changes that
\* succeeded or failed, an agent message, a command, a reasoning item.
Items ==
  [type : {"file_change"}, status : {"completed", "failed"},
   changes : UNION {[1..n -> [path : {"a"}, kind : {"add", "rename"}]] : n \in 0..MaxChanges}]
    \cup {[type |-> t, status |-> "completed", changes |-> <<>>] :
            t \in {"agent_message", "command_execution", "reasoning"}}

\* One run of a Codex session whose native stream also carries completed items.
MapInit ==
  /\ InitSession
  /\ provider = "codex"
  /\ maxBuffer = MaxCap
  /\ runLimit = MaxRuns
  /\ signal = [r \in RunIds |-> "none"]
  /\ StreamUnused
  /\ PermUnused
  /\ ExtUnused

\* The native stream delivers an item.completed event: mapEvent runs up to
\* its first yield, or to its end when it yields nothing.
ItemCompleted(r, item) ==
  /\ ~InSync
  /\ provider = "codex"
  /\ pc[r] = "await_msg"
  /\ nativeCount[r] < MaxNative
  /\ nativeCount' = [nativeCount EXCEPT ![r] = @ + 1]
  /\ curEv' = [curEv EXCEPT ![r] = "item.completed"]
  /\ LET evs == mapItemCompleted(item) IN
       /\ mapping' = [mapping EXCEPT ![r] = [item |-> item,
                                             rest |-> IF evs = <<>> THEN <<>> ELSE Tail(evs),
                                             base |-> Len(pushed[r])]]
       /\ IF evs = <<>> THEN Goto(r, "after_map") ELSE Yield(r, Head(evs), "map_next")
  /\ UNCHANGED <<completed, cancelled, done, backendCalled, resVars, unwrapped, opening, resume>>
  /\ UNCHANGED <<streamVars, permVars, envVars, provider, maxBuffer, activeRunId, abortControllers,
                 aborted, nextRunId, thrown, events, pushed, liveCancel>>

\* mapEvent is resumed after a yield: its next event, or its return.
MapNextEvent(r) ==
  /\ pc[r] = "map_next"
  /\ IF mapping[r].rest = <<>>
     THEN Goto(r, "after_map") /\ UNCHANGED mapping
     ELSE /\ Yield(r, Head(mapping[r].rest), "map_next")
          /\ mapping' = [mapping EXCEPT ![r].rest = Tail(@)]
  /\ UNCHANGED <<completed, cancelled, done, curEv, nativeCount, backendCalled, resVars,
                 unwrapped, opening, resume>>
  /\ UNCHANGED <<streamVars, permVars, envVars, provider, maxBuffer, activeRunId, abortControllers,
                 aborted, nextRunId, thrown, events, pushed, liveCancel>>

MapNext ==
  \/ Run
  \/ \E r \in RunIds : TaskStep(r)
  \/ \E r \in RunIds : BackendStep(r)
  \/ \E r \in RunIds : \E item \in Items : ItemCompleted(r, item)
  \/ \E r \in RunIds : MapNextEvent(r)
  \/ \E r \in RunIds : SessionCancel(r)

MapSpec == MapInit /\ [][MapNext]_vars


\* =================================================================
\* snapshot() and resumeSession()
\* =================================================================
\* The options of a run that resumes from the latest native session id seen.
runOptionsLatestId(sess, ws) ==
  [built |-> TRUE, resume |-> sess.nativeSessionId,
   cwd |-> ws.cwd, additionalDirectories |-> ws.additionalDirs]

\* ClaudeSession.runEvents: `cwd: this.workspace?.cwd, additionalDirectories:
\* this.workspace?.additionalDirs, resume: this.sessionProvider.resumeSessionId`
runOptions(sess, ws) ==
  [built |-> TRUE, resume |-> sess.resumeSessionId,
   cwd |-> ws.cwd, additionalDirectories |-> ws.additionalDirs]

\* openSession() of either adapter, with or without permissions, with or
\* without a workspace; a Claude caller may pass a resumeSessionId of its
\* own.  Codex maps the permissions into the thread options here.
ResumeInit ==
  /\ InitSession
  /\ maxBuffer = 1
  /\ runLimit = 0
  /\ signal = [r \in RunIds |-> "none"]
  /\ StreamUnused
  /\ permissions \in [yolo : Tri, network : {"undefined"}, sandbox : Tri, write : Tri]
  /\ workspace \in Workspaces
  /\ claudeOptions = NoClaudeOptions
  /\ toolCall = NoToolCall
  /\ decision = NoDecision
  /\ mapping = [r \in RunIds |-> NoMapping]
  /\ unwrapped = NoUnwrap
  /\ opening = Opened
  /\ \E given \in BOOLEAN, id \in 0..MaxIds :
       /\ ~given => permissions = NoPermissions
       /\ provider = "codex" => id = 0
       /\ codexOptions = IF provider = "codex" /\ given
                         THEN mapUnifiedPermissionsToCodex(permissions) ELSE NoCodexOptions
       /\ resume = [NoResume EXCEPT
                      !.resumeSessionId = id, !.nativeSessionId = id, !.configured = given,
                      !.opened = [configured |-> given, permissions |-> permissions,
                                  workspace |-> workspace]]

ResumeFrame == UNCHANGED <<runVars, envVars, streamVars, mapping, unwrapped, opening,
                           toolCall, decision>>

\* run() up to the generator's first yield.  Claude builds the options of
\* the query: the mapped permissions when the session has permissions, and
\* cwd, additionalDirectories and resume; a Codex run uses its thread.
StartRun ==
  /\ ~resume.running
  /\ resume.runs < MaxSeqRuns
  /\ IF provider = "claude"
     THEN /\ claudeOptions' = IF resume.configured THEN mapUnifiedPermissionsToClaude(permissions)
                              ELSE NoClaudeOptions
          /\ resume' = [resume EXCEPT !.running = TRUE, !.runs = @ + 1,
                                      !.options = runOptions(resume, workspace)]
     ELSE /\ UNCHANGED claudeOptions
          /\ resume' = [resume EXCEPT !.running = TRUE, !.runs = @ + 1]
  /\ UNCHANGED <<permissions, workspace, codexOptions>>
  /\ ResumeFrame

\* A native message of the run.  Claude: `this.nativeSessionId =
\* msg.session_id ?? this.nativeSessionId`; Codex: thread.started carries the
\* thread id.  id 0 is a message without an id; the last message ends the run.
NativeMessage(id, last) ==
  /\ resume.running
  /\ resume' = [resume EXCEPT !.nativeSessionId = IF id # 0 THEN id ELSE @,
                              !.observed = IF id # 0 THEN id ELSE @,
                              !.running = ~last]
  /\ UNCHANGED permVars
  /\ ResumeFrame

\* snapshot(): `{ provider, sessionId, nativeSessionId: this.nativeSessionId }`
Snapshot ==
  /\ resume.handle # resume.nativeSessionId
  /\ resume' = [resume EXCEPT !.handle = resume.nativeSessionId]
  /\ UNCHANGED permVars
  /\ ResumeFrame

\* resumeSession(handle): throws without a nativeSessionId; otherwise a new
\* session.  Claude: workspace and permissions undefined, sessionProvider
\* { resumeSessionId: handle.nativeSessionId }.  Codex:
\* resumeThread(handle.nativeSessionId, defaults).
ResumeSession ==
  /\ ~resume.running
  /\ resume.handle > 0
  /\ permissions' = NoPermissions
  /\ workspace' = NoWorkspace
  /\ codexOptions' = NoCodexOptions
  /\ claudeOptions' = NoClaudeOptions
  /\ resume' = [resume EXCEPT
                  !.resumeSessionId = IF provider = "claude" THEN resume.handle ELSE 0,
                  !.nativeSessionId = resume.handle,
                  !.observed = 0,
                  !.configured = FALSE,
                  !.options = NoResume.options,
                  !.resumed = TRUE]
  /\ ResumeFrame

ResumeNext ==
  \/ StartRun
  \/ \E id \in 0..MaxIds, last \in BOOLEAN : NativeMessage(id, last)
  \/ Snapshot
  \/ ResumeSession

ResumeSpec == ResumeInit /\ [][ResumeNext]_vars


\* =================================================================
\* Properties
\* =================================================================
TerminalPushed(r) == \E i \in 1..Len(pushed[r]) : IsDone(pushed[r][i])

CountDone(seq) == Cardinality({i \in 1..Len(seq) : IsDone(seq[i])})

varsButThrown == <<unitVars, envVars, provider, maxBuffer, activeRunId, abortControllers, aborted, nextRunId,
                   pc, inflight, cont, completed, cancelled, done, curEv, nativeCount,
                   backendCalled, result, resolveCalls, events, pushed, liveCancel>>

\* C1: run() on a session with an active run throws SessionBusyError carrying
\* the active run's id and changes nothing else (activeRunId, the abort map,
\* the channels, the background tasks, the backend calls); no run is started
\* while one is active; and the active run still reaches its terminal event.
C1_BusyRejected ==
  /\ [][ /\ (thrown' # thrown) =>
              (activeRunId # NoRun /\ thrown' = activeRunId /\ UNCHANGED varsButThrown)
         /\ (activeRunId # NoRun) => (nextRunId' = nextRunId) ]_vars
  /\ \A r \in RunIds : (thrown = r) ~> TerminalPushed(r)

C1_Witness == \E r \in RunIds : thrown = r /\ TerminalPushed(r)

\* C2: on every termination path exactly one run.completed is pushed to the
\* run's channel: never two at any time, and exactly one once the task is over.
C2_ExactlyOneTerminal ==
  \A r \in RunIds :
    /\ CountDone(pushed[r]) <= 1
    /\ pc[r] = "done" => CountDone(pushed[r]) = 1

\* A run that ended although the native iterator's teardown threw after the
\* terminal event (the catch block ran with completed = true).
C2_Witness ==
  \E r \in RunIds :
    /\ pc[r] = "done"
    /\ CountDone(pushed[r]) = 1
    /\ \E i \in 1..Len(pushed[r]) : pushed[r][i] = ErrorEv("catch") /\ i = Len(pushed[r])

\* C7: the first event pushed for a run is run.started, and it has been
\* pushed whenever the backend's native call has been invoked.
C7_StartedFirst ==
  \A r \in RunIds :
    /\ Len(pushed[r]) > 0 => pushed[r][1] = RunStarted
    /\ backendCalled[r] => Len(pushed[r]) > 0

C7_Witness == \E r \in RunIds : backendCalled[r] /\ Len(pushed[r]) > 0 /\ pushed[r][1] = RunStarted

\* C4: run.completed is the last item pushed to the run's channel: no event
\* of any type is pushed after it.
C4_TerminalIsLast ==
  \A r \in RunIds : \A i \in 1..Len(pushed[r]) : IsDone(pushed[r][i]) => i = Len(pushed[r])

\* C8: a run.completed with status error is preceded, in the run's channel,
\* by at least one error event.
C8_ErrorEventBeforeErrorStatus ==
  \A r \in RunIds : \A i \in 1..Len(pushed[r]) :
    (IsDone(pushed[r][i]) /\ pushed[r][i].status = "error")
      => \E j \in 1..(i - 1) : pushed[r][j].type = "error"

\* The error events by which the controller reports the failure that ends the run.
TerminatingFailure(e) == e.type = "error" /\ e.raw \in {"error", "ended", "catch"}

\* C9: an error event pushed for the terminating failure is never followed
\* by a run.completed with status cancelled.
C9_NoErrorEventWhenCancelled ==
  \A r \in RunIds : \A i \in 1..Len(pushed[r]) : \A j \in 1..Len(pushed[r]) :
    (i < j /\ TerminatingFailure(pushed[r][i]) /\ IsDone(pushed[r][j]))
      => pushed[r][j].status # "cancelled"

\* The ways a native stream ends that C5 names: silently, by throwing, or
\* with a native failure (Claude error result, Codex turn.failed / error).
FailureEnding(e) == e.raw \in {"ended", "catch", "result_error", "turn.failed", "error"}

\* C5: a run cancelled after it started streaming and before its terminal
\* event was produced ends with status cancelled, whichever way the native
\* stream then ends.
C5_CancelledNeverError ==
  \A r \in RunIds : \A i \in 1..Len(pushed[r]) :
    (liveCancel[r] /\ IsDone(pushed[r][i]) /\ FailureEnding(pushed[r][i]))
      => pushed[r][i].status = "cancelled"

Resolved(r) == result[r] # NoEvent

\* C3: the result promise is settled by exactly one resolveResult() call,
\* with the very run.completed that was pushed to the channel; this does not
\* depend on the consumer (never iterating, iterating to the end, or
\* returning midway); and every started run's result is eventually resolved.
C3_ResultResolvedOnce ==
  /\ [](\A r \in RunIds :
          /\ resolveCalls[r] <= 1
          /\ Resolved(r) <=> resultResolved(r)
          /\ Resolved(r) =>
               /\ IsDone(result[r])
               /\ CountDone(pushed[r]) = 1
               /\ \E i \in 1..Len(pushed[r]) : pushed[r][i] = result[r]
          /\ pc[r] = "done" => Resolved(r))
  /\ \A r \in RunIds : Started(r) ~> Resolved(r)

\* The result is resolved although run.events was never iterated.
C3_Witness ==
  \E r \in RunIds : Resolved(r) /\ ~events[r].iteratorCreated /\ result[r] \in {pushed[r][i] : i \in 1..Len(pushed[r])}

\* C6: after the terminal event the session is idle again, the run's abort
\* handle is gone from the map, and eventually the run's channel is closed.
C6_CleanupAfterTerminal ==
  /\ [](\A r \in RunIds : TerminalPushed(r) => (activeRunId # r /\ r \notin abortControllers))
  /\ \A r \in RunIds : TerminalPushed(r) ~> (activeRunId = NoRun)
  /\ \A r \in RunIds : TerminalPushed(r) ~> (r \notin abortControllers /\ events[r].closed)

\* A run over, closed by the run loop (the consumer never returned early).
C6_Witness ==
  \E r \in RunIds :
    /\ TerminalPushed(r) /\ pc[r] = "done"
    /\ activeRunId = NoRun /\ r \notin abortControllers
    /\ events[r].closed /\ ~events[r].returned


\* The last n items of a sequence.
LastN(seq, n) == IF Len(seq) <= n THEN seq ELSE SubSeq(seq, Len(seq) - n + 1, Len(seq))

\* N + k items (k > 0) were pushed with no next() call before the close, and
\* the consumer has not abandoned the stream.
OverfilledThenClosed ==
  /\ stream.closed /\ ~stream.returned /\ ~slog.earlyNext
  /\ slog.closedAt > stream.maxBuffer

\* C11: capacity N, N+k items pushed with no consumer waiting, then close:
\* what the consumer is handed, followed by what is still buffered, is the
\* last N items pushed before the close, in push order; end-of-sequence is
\* handed out only after all N, and nothing is left once N were handed out.
C11_KeepsLastN ==
  OverfilledThenClosed =>
    LET last == LastN(SubSeq(slog.items, 1, slog.closedAt), stream.maxBuffer) IN
      /\ stream.delivered \o stream.buffer = last
      /\ stream.ended => stream.delivered = last
      /\ stream.pending = 0

C11_Witness ==
  /\ OverfilledThenClosed
  /\ stream.maxBuffer = 2 /\ slog.closedAt = 4
  /\ stream.delivered = <<3, 4>> /\ stream.ended

\* C12: the first [Symbol.asyncIterator]() call succeeds and every later one
\* throws, whatever was pushed, closed or read in between; a call that
\* throws leaves the buffer, the waiters and the closed flag as they were.
C12_SingleConsumer ==
  [][ (slog'.iterCalls # slog.iterCalls) =>
        /\ (slog'.iterThrows # slog.iterThrows) <=> (slog.iterCalls > 0)
        /\ (slog.iterCalls > 0) => (stream' = stream)
        /\ (slog.iterCalls = 0) => (stream' = [stream EXCEPT !.iteratorCreated = TRUE]) ]_vars

\* A second iterator was refused after the first consumer had read an item
\* and the stream had been closed.
C12_Witness ==
  /\ slog.iterThrows > 0
  /\ Len(stream.delivered) > 0
  /\ stream.closed

\* C13: a close() on a closed stream changes nothing; close() leaves no
\* waiter suspended and hands end-of-sequence to those it found; on a closed
\* stream with an empty buffer next() returns end-of-sequence and does not suspend.
C13_CloseWakes ==
  /\ [](stream.closed => stream.pending = 0)
  /\ [](slog.woken > 0 => stream.ended)
  /\ [][ /\ (slog'.closes # slog.closes /\ stream.closed) => (stream' = stream)
         /\ (stream.closed /\ stream.buffer = <<>> /\ stream' # stream /\ slog' = slog)
              => (stream'.ended /\ stream'.pending = 0) ]_vars

\* close() found two suspended consumers and was then called once more.
C13_Witness ==
  /\ slog.woken = 2 /\ slog.closes = 2
  /\ stream.closed /\ stream.ended /\ stream.pending = 0


\* Everything a cancel must leave alone: the session's fields, the handle
\* map, every background task, channel and result promise.
cancelFrame == <<provider, maxBuffer, activeRunId, abortControllers, nextRunId, thrown,
                 genVars, resVars, chanVars, envVars>>

\* C14: cancel(runId) aborts the handle of the named run when it is in the
\* handle map and no other handle, and is a no-op when it is not; cancel()
\* aborts every handle in the map; a step that aborts a handle changes
\* nothing else: activeRunId, the handle map, the channels, the tasks and
\* the result promises are as before.
C14_CancelOnlyAborts ==
  [][ /\ (aborted' # aborted) => UNCHANGED cancelFrame
      /\ \A r \in RunIds : SessionCancel(r) =>
            /\ \A q \in RunIds : aborted'[q] = (aborted[q] \/ (q = r /\ r \in abortControllers))
            /\ UNCHANGED cancelFrame
      /\ SessionCancelAll =>
            /\ \A q \in RunIds : aborted'[q] = (aborted[q] \/ q \in abortControllers)
            /\ UNCHANGED cancelFrame ]_vars

\* Run 2 is active and still streaming although its handle was aborted by a
\* cancel; run 1, over and out of the map, was never aborted.
C14_Witness ==
  /\ activeRunId = 2 /\ aborted[2] /\ ~aborted[1]
  /\ 2 \in abortControllers /\ pc[2] = "await_msg" /\ ~events[2].closed
  /\ pc[1] = "done" /\ result[2] = NoEvent


\* C17: once the terminal event of every started run has been pushed the
\* session is not busy, and a result is resolved only after that push; a
\* run() on a session that is not busy throws nothing and starts a run with a
\* fresh id, its own entry in the handle map and a new, empty channel,
\* leaving the channels of earlier runs alone; SessionBusyError is thrown
\* only while a run is active; and a run whose terminal event is not pushed
\* yet stays the active run, with its handle in the map and its channel
\* open, while earlier runs finish their cleanup.
C17_BusyRecoverable ==
  /\ []((\A r \in RunIds : Started(r) => TerminalPushed(r)) => ~SessionBusy)
  /\ [](\A r \in RunIds : Resolved(r) => TerminalPushed(r))
  /\ [](\A r \in RunIds :
          (Started(r) /\ ~TerminalPushed(r)) =>
             (activeRunId = r /\ r \in abortControllers /\ ~events[r].closed))
  /\ [][ /\ (thrown' # thrown) => SessionBusy
         /\ (nextRunId' # nextRunId) =>
              /\ ~SessionBusy /\ thrown' = thrown
              /\ ~Started(nextRunId) /\ nextRunId \notin abortControllers
              /\ activeRunId' = nextRunId
              /\ abortControllers' = abortControllers \cup {nextRunId}
              /\ events'[nextRunId] = NewStream(maxBuffer) /\ pushed'[nextRunId] = <<>>
              /\ \A q \in RunIds \ {nextRunId} : events'[q] = events[q] /\ pushed'[q] = pushed[q]
       ]_vars

\* A second run was accepted while the first run's task was still closing
\* the native iterator, no SessionBusyError was ever thrown, and both runs
\* resolved their results.
C17_Witness ==
  /\ thrown = NoRun
  /\ pc[1] = "teardown" /\ Resolved(1)
  /\ pc[2] = "done" /\ Resolved(2) /\ result[2].status = "success"


\* C15: once dispose() has returned the handle map is empty, even if a run
\* was active when it was called.
C15_DisposeReleasesHandles == disposed => abortControllers = {}

\* C16: whenever the caller's signal is aborted and the run is active, the
\* run's own abort handle is aborted too.
C16_SignalMirrored ==
  \A r \in RunIds : (signal[r] = "aborted" /\ activeRunId = r) => aborted[r]


\* C18: with yolo = true the mapped options are the same for all values of
\* the network, sandbox and write flags: Codex gets danger-full-access with
\* network access and web search enabled; Claude gets bypassPermissions, a
\* disabled sandbox and no canUseTool gate, so no tool call is ever decided.
C18_YoloIgnoresFlags ==
  Boolean(permissions.yolo) =>
    /\ codexOptions.mapped =>
         codexOptions = [mapped |-> TRUE, approvalPolicy |-> "never",
                         sandboxMode |-> "danger-full-access",
                         networkAccessEnabled |-> TRUE, webSearchEnabled |-> TRUE]
    /\ claudeOptions.mapped =>
         claudeOptions = [mapped |-> TRUE, permissionMode |-> "bypassPermissions",
                          allowDangerouslySkipPermissions |-> TRUE, canUseTool |-> "undefined",
                          sandboxEnabled |-> FALSE, disallowedTools |-> <<>>]
    /\ decision = NoDecision

\* yolo with every other flag set against it, mapped for Codex.
C18_Witness ==
  /\ permissions = [yolo |-> "true", network |-> "false", sandbox |-> "true", write |-> "false"]
  /\ codexOptions.mapped /\ codexOptions.sandboxMode = "danger-full-access"

\* C19: without yolo the Codex options have approvalPolicy never, network
\* access and web search both equal to the network flag, and sandboxMode
\* read-only when write is off (whatever sandbox is), workspace-write when
\* sandbox and write are on, danger-full-access when only write is on.
C19_CodexMapping ==
  (codexOptions.mapped /\ ~Boolean(permissions.yolo)) =>
    /\ codexOptions.approvalPolicy = "never"
    /\ codexOptions.networkAccessEnabled = Boolean(permissions.network)
    /\ codexOptions.webSearchEnabled = Boolean(permissions.network)
    /\ codexOptions.sandboxMode =
         (IF ~Boolean(permissions.write) THEN "read-only"
          ELSE IF Boolean(permissions.sandbox) THEN "workspace-write"
          ELSE "danger-full-access")

\* No sandbox and no writes: forced to read-only.
C19_Witness ==
  /\ permissions = [yolo |-> "false", network |-> "true", sandbox |-> "false", write |-> "false"]
  /\ codexOptions.mapped /\ codexOptions.sandboxMode = "read-only"
  /\ codexOptions.networkAccessEnabled

\* The elements of a sequence.
Range(seq) == {seq[i] : i \in 1..Len(seq)}

\* C20: without yolo the Claude disallow-list is AskUserQuestion, plus
\* WebFetch and WebSearch iff network is off, plus Write, Edit, NotebookEdit
\* and KillShell iff write is off, each once; and every call to a tool on
\* the list is denied as disabled, whatever its input and meta.
C20_DisallowList ==
  (claudeOptions.mapped /\ ~Boolean(permissions.yolo)) =>
    /\ Range(claudeOptions.disallowedTools) =
         {"AskUserQuestion"}
           \cup (IF Boolean(permissions.network) THEN {} ELSE {"WebFetch", "WebSearch"})
           \cup (IF Boolean(permissions.write) THEN {}
                 ELSE {"Write", "Edit", "NotebookEdit", "KillShell"})
    /\ Len(claudeOptions.disallowedTools) = Cardinality(Range(claudeOptions.disallowedTools))
    /\ (toolCall # NoToolCall /\ toolCall.toolName \in Range(claudeOptions.disallowedTools)) =>
         (decision.behavior = "deny" /\ decision.message = "disabled by unified permissions")

\* Edit, disallowed because write is off, is denied as disabled although its
\* target lies inside the workspace.
C20_Witness ==
  /\ ~Boolean(permissions.yolo) /\ ~Boolean(permissions.write) /\ Boolean(permissions.sandbox)
  /\ toolCall.toolName = "Edit"
  /\ toolCall.toolInput.file_path = Str(<<"/", "w", "/", "a">>)
  /\ workspace.cwd = Str(<<"/", "w">>)
  /\ decision.behavior = "deny" /\ decision.message = "disabled by unified permissions"


\* The target path of the gate's call: meta.blockedPath when it is a
\* non-empty string, else toolInput.file_path when it is one.
TargetPath ==
  IF toolCall.meta.kind = "object" /\ NonEmptyString(toolCall.meta.blockedPath)
    THEN toolCall.meta.blockedPath
  ELSE IF toolCall.toolInput.kind = "object" /\ NonEmptyString(toolCall.toolInput.file_path)
    THEN toolCall.toolInput.file_path
  ELSE Absent

\* path is the root r itself, or r followed by "/" and more.
AtOrUnder(path, r) ==
  \/ path = r
  \/ /\ Len(path) > Len(r)
     /\ SubSeq(path, 1, Len(r)) = r
     /\ (r[Len(r)] = "/" \/ path[Len(r) + 1] = "/")

SandboxedWrite ==
  /\ toolCall # NoToolCall
  /\ normalizePermissions(permissions).sandbox
  /\ normalizePermissions(permissions).write

\* C21 as stated: with sandbox and write on, a write-like tool call with a
\* target path is allowed iff the path is a workspace root or lies under one
\* at a path-segment boundary, and a Read call is allowed whatever its path.
C21_ScopedIff ==
  SandboxedWrite =>
    /\ (isWriteLikeTool(toolCall.toolName) /\ TargetPath.type = "string") =>
         (decision.behavior = "allow"
            <=> \E r \in Roots(workspace) : AtOrUnder(TargetPath.text, r))
    /\ toolCall.toolName = "Read" => decision.behavior = "allow"

\* C21, amended: the same for a session that has at least one workspace
\* root; in a session without roots every such call is allowed.
C21_ScopedWrites ==
  SandboxedWrite =>
    /\ (isWriteLikeTool(toolCall.toolName) /\ TargetPath.type = "string") =>
         (decision.behavior = "allow"
            <=> \/ Roots(workspace) = {}
                \/ \E r \in Roots(workspace) : AtOrUnder(TargetPath.text, r))
    /\ toolCall.toolName = "Read" => decision.behavior = "allow"

\* Write to /wx is denied in the workspace /w, whose name it only shares as
\* a string prefix.
C21_Witness ==
  /\ SandboxedWrite
  /\ toolCall.toolName = "Write"
  /\ toolCall.meta = NoMeta
  /\ toolCall.toolInput.file_path = Str(<<"/", "w", "x">>)
  /\ workspace.cwd = Str(<<"/", "w">>)
  /\ decision.behavior = "deny" /\ decision.message = "outside the session workspace"


\* The mutating constructs the gate's patterns name: a redirection, tee, a
\* file-mutating utility, an in-place editor, a mutating git subcommand.
UsesMutatingConstruct(c) ==
  \/ HasWord(c, Redirections \cup {"tee"})
  \/ HasWord(c, MutatingUtilities)
  \/ HasPair(c, InPlaceEditors, {"-i"})
  \/ HasPair(c, {"git"}, MutatingGitVerbs)

\* C22: with sandbox and write on, a Bash call whose command uses a known
\* mutating construct and whose target path lies outside every workspace
\* root of the session is denied as outside the workspace.
C22_MutatingBashScoped ==
  ( /\ SandboxedWrite
    /\ toolCall.toolName = "Bash"
    /\ NonEmptyString(InputProperty(toolCall.toolInput, "command"))
    /\ UsesMutatingConstruct(toolCall.toolInput.command.text)
    /\ TargetPath.type = "string"
    /\ Roots(workspace) # {}
    /\ ~\E r \in Roots(workspace) : AtOrUnder(TargetPath.text, r) )
  => (decision.behavior = "deny" /\ decision.message = "outside the session workspace")


ReadOnlyBashCall ==
  /\ toolCall # NoToolCall
  /\ toolCall.toolName = "Bash"
  /\ ~normalizePermissions(permissions).write

\* C23: with write off, a Bash call is allowed only if its command is a
\* non-empty string that begins with an allowlisted read-only command and
\* contains no redirection, mutating utility, in-place editor or mutating
\* git subcommand, nor, with network off, a network utility or git
\* clone/fetch/pull; a missing or blank command is denied.
C23_ReadOnlyBash ==
  ReadOnlyBashCall =>
    LET command == InputProperty(toolCall.toolInput, "command")
        c == command.text
    IN /\ decision.behavior = "allow" =>
            /\ NonEmptyString(command)
            /\ \/ c[1] \in ReadOnlyCommands
               \/ Len(c) >= 2 /\ c[1] = "git" /\ c[2] \in ReadOnlyGitVerbs
            /\ ~HasWord(c, Redirections)
            /\ ~HasWord(c, MutatingUtilities)
            /\ ~HasPair(c, InPlaceEditors, {"-i"})
            /\ ~HasPair(c, {"git"}, MutatingGitVerbs)
            /\ ~normalizePermissions(permissions).network =>
                 /\ ~HasWord(c, NetworkUtilities)
                 /\ ~HasPair(c, {"git"}, NetworkGitVerbs)
       /\ ~NonEmptyString(command) =>
            (decision.behavior = "deny" /\ decision.message = "Bash command is missing")

\* With write and network off, `git status` is allowed.
C23_Witness ==
  /\ ReadOnlyBashCall
  /\ ~normalizePermissions(permissions).network
  /\ toolCall.toolInput.command = Str(<<"git", "status">>)
  /\ decision.behavior = "allow"


\* C24: with write off the decision does not depend on the sandbox flag:
\* it is the decision the gate gives the same call under the same
\* permissions with any other value of sandbox.
C24_SandboxIrrelevant ==
  (toolCall # NoToolCall /\ ~normalizePermissions(permissions).write) =>
    \A s \in Tri :
      LET other == [permissions EXCEPT !.sandbox = s] IN
        ~Boolean(other.yolo) =>
          decision = canUseTool(normalizePermissions(other), workspace,
                                toolCall.toolName, toolCall.toolInput, toolCall.meta)

\* With write off and sandbox on, a redirection whose blocked path /t lies
\* outside the workspace /w is denied by the read-only rule, not by scoping.
C24_Witness ==
  /\ toolCall.toolName = "Bash"
  /\ ~normalizePermissions(permissions).write
  /\ normalizePermissions(permissions).sandbox
  /\ HasWord(toolCall.toolInput.command.text, {">"})
  /\ toolCall.meta.blockedPath = Str(<<"/", "t">>)
  /\ workspace.cwd = Str(<<"/", "w">>)
  /\ decision.behavior = "deny" /\ decision.message = "Bash command denied"


\* C25: every deny decision of the gate carries interrupt = false.
C25_DenyNeverInterrupts ==
  decision.behavior = "deny" => decision.interrupt = "false"

\* WebFetch, disallowed because network is off, is denied without interrupt.
C25_Witness ==
  /\ toolCall.toolName = "WebFetch"
  /\ ~normalizePermissions(permissions).network
  /\ decision.behavior = "deny" /\ decision.interrupt = "false"

\* An empty plain object, the `{}` of the allow branch.
EmptyObject == [kind |-> "object", command |-> Absent, file_path |-> Absent]

\* C26 as stated: every allow decision carries as updatedInput the very
\* tool input it was given, be it an object, an array, a primitive or missing.
C26_AllowEchoesInput ==
  (toolCall # NoToolCall /\ decision.behavior = "allow") =>
    decision.updatedInput = toolCall.toolInput

\* C26, amended: an allow decision carries the tool input itself when it is
\* a plain object, and an empty object when it is an array, a primitive or
\* missing.
C26_AllowEchoesObject ==
  (toolCall # NoToolCall /\ decision.behavior = "allow") =>
    decision.updatedInput =
      (IF toolCall.toolInput.kind = "object" THEN toolCall.toolInput ELSE EmptyObject)

\* An allowed Read whose input object names a file comes back with that object.
C26_Witness ==
  /\ toolCall.toolName = "Read"
  /\ toolCall.toolInput.kind = "object"
  /\ toolCall.toolInput.file_path = Str(<<"/", "t">>)
  /\ decision.behavior = "allow"
  /\ decision.updatedInput = toolCall.toolInput


\* Some declared workspace root of the session is not an existing directory.
BadRoot ==
  \/ opening.cwd \in {"file", "missing"}
  \/ \E i \in 1..Len(opening.additionalDirs) : opening.additionalDirs[i] # "dir"

\* C30: a session whose workspace has a root that is not an existing
\* directory is never opened: no run starts on it and no run.started is pushed.
C30_BadRootNeverRuns ==
  BadRoot =>
    /\ opening.stage # "opened"
    /\ \A r \in RunIds : ~Started(r) /\ pushed[r] = <<>>


\* unwrapStructuredOutput was called under a schema whose root is no object.
WrappedCall == unwrapped.called /\ unwrapped.rootType \notin {"noschema", "object"}

HoldsValueKey == unwrapped.value.kind = "object" /\ HasKey(unwrapped.value, "value")

\* C28 as stated: under a schema with a non-object root, an object holding
\* a 'value' key comes back as that property's value, and every other value
\* (primitive, null, array, object with other keys) comes back unchanged.
C28_UnwrapOrUnchanged ==
  WrappedCall =>
    /\ HoldsValueKey =>
         \E i \in 1..Len(unwrapped.value.props) :
           unwrapped.value.props[i].key = "value" /\ unwrapped.out = unwrapped.value.props[i].val
    /\ ~HoldsValueKey => unwrapped.out = unwrapped.value

\* The root types a single property's value is taken for.
FitsRoot(rootType, kind) ==
  \/ rootType \in {"array", "string", "integer", "boolean", "null"} /\ kind = rootType
  \/ rootType = "number" /\ kind \in {"number", "integer"}

\* An object with exactly one key, not 'value', whose value has the root type.
SingleFittingProperty ==
  /\ unwrapped.value.kind = "object"
  /\ Len(unwrapped.value.props) = 1
  /\ unwrapped.value.props[1].key # "value"
  /\ FitsRoot(unwrapped.rootType, unwrapped.value.props[1].val.kind)

\* C28, amended: as stated, except that runtime-core's unwrap gives, for an
\* object with exactly one key whose value has the schema's root type, that
\* property's value; the adapters' copies return such an object unchanged.
C28_UnwrapOrFallback ==
  WrappedCall =>
    /\ HoldsValueKey =>
         \E i \in 1..Len(unwrapped.value.props) :
           unwrapped.value.props[i].key = "value" /\ unwrapped.out = unwrapped.value.props[i].val
    /\ (~HoldsValueKey /\ unwrapped.copy = "runtime-core" /\ SingleFittingProperty) =>
         unwrapped.out = unwrapped.value.props[1].val
    /\ (~HoldsValueKey /\ ~(unwrapped.copy = "runtime-core" /\ SingleFittingProperty)) =>
         unwrapped.out = unwrapped.value

\* Under an array root, runtime-core's unwrap returns the array held by {a: [...]}.
C28_Witness ==
  /\ WrappedCall
  /\ unwrapped.copy = "runtime-core"
  /\ unwrapped.rootType = "array"
  /\ unwrapped.value = Obj(<<[key |-> "a", val |-> Leaf("array")]>>)
  /\ unwrapped.out = Leaf("array")


\* Run r's mapEvent has returned from a completed file_change item.
FileChangeMapped(r) ==
  /\ pc[r] = "after_map"
  /\ curEv[r] = "item.completed"
  /\ mapping[r].item.type = "file_change"

\* What run r has pushed since that item arrived.
PushedForItem(r) == SubSeq(pushed[r], mapping[r].base + 1, Len(pushed[r]))

\* C29: a completed file_change item whose status is 'completed' gives
\* exactly one file.changed per listed change, in order; with any other
\* status it gives no file.changed, and the loop goes on to await the next
\* native event without having built a run.completed.
C29_FileChanges ==
  /\ [](\A r \in RunIds : FileChangeMapped(r) =>
          LET item == mapping[r].item
              out == PushedForItem(r)
          IN IF item.status = "completed"
             THEN /\ Len(out) = Len(item.changes)
                  /\ \A i \in 1..Len(out) :
                       /\ out[i].type = "file.changed"
                       /\ out[i].change.path = item.changes[i].path
                       /\ out[i].change.kind = (IF item.changes[i].kind = "add" THEN "add"
                                                ELSE "unknown")
             ELSE /\ \A i \in 1..Len(out) : out[i].type # "file.changed"
                  /\ ~TerminalProduced(r))
  /\ [][\A r \in RunIds :
          (FileChangeMapped(r) /\ mapping[r].item.status # "completed" /\ pc'[r] # pc[r])
            => (pc'[r] = "await_msg" /\ ~TerminalProduced(r)')]_vars

\* A patch that added a and renamed a has been mapped to two file.changed
\* events, kinds add and unknown.
C29_Witness ==
  \E r \in RunIds :
    /\ FileChangeMapped(r)
    /\ mapping[r].item.status = "completed"
    /\ mapping[r].item.changes = <<[path |-> "a", kind |-> "add"], [path |-> "a", kind |-> "rename"]>>
    /\ Len(PushedForItem(r)) = 2
    /\ PushedForItem(r)[2].change.kind = "unknown"

\* C27: every native event the generator consumes makes it yield a unified
\* event, which the run loop pushes: the event's own mapping, the terminal
\* run.completed, or, for an event without a mapping, a provider.event
\* carrying that event.
C27_TranslationTotal ==
  [][\A r \in RunIds :
       /\ nativeCount'[r] = nativeCount[r] + 1 =>
            /\ pc'[r] = "yielding"
            /\ inflight'[r] # NoEvent
            /\ ( /\ provider = "codex"
                 /\ \/ curEv'[r] \in {"turn.started", "turn.completed", "turn.failed", "error"}
                    \/ curEv'[r] = "item.completed" /\ mapping'[r].item.type = "reasoning" )
               => inflight'[r] = Ev("provider.event", "", curEv'[r])
       /\ (pc[r] = "yielding" /\ pc'[r] # "yielding") =>
            pushed'[r] = Append(pushed[r], inflight[r])
    ]_vars


\* C34: with write off, a Bash call whose command contains tee is denied.
C34_TeeDenied ==
  ( /\ ReadOnlyBashCall
    /\ NonEmptyString(InputProperty(toolCall.toolInput, "command"))
    /\ HasWord(toolCall.toolInput.command.text, {"tee"}) )
  => decision.behavior = "deny"

\* C35: with sandbox and write on, a call without a target path, or in a
\* session without workspace roots, is never denied as outside the
\* workspace; a Bash command with a redirection and no target path is allowed.
C35_ScopingNeedsPathAndRoots ==
  (SandboxedWrite /\ (TargetPath.type # "string" \/ Roots(workspace) = {})) =>
    /\ decision.message # "outside the session workspace"
    /\ ( /\ toolCall.toolName = "Bash"
         /\ NonEmptyString(InputProperty(toolCall.toolInput, "command"))
         /\ HasWord(toolCall.toolInput.command.text, {">"}) )
       => decision.behavior = "allow"

\* Write to /t is allowed in a session that has no workspace root.
C35_Witness ==
  /\ SandboxedWrite
  /\ Roots(workspace) = {}
  /\ toolCall.toolName = "Write"
  /\ TargetPath = Str(<<"/", "t">>)
  /\ decision.behavior = "allow"


\* The items pushed before the stream was closed (all of them while it is open).
PushedOpen == IF slog.closedAt >= 0 THEN slog.closedAt ELSE Len(slog.items)

\* C33: whatever the interleaving of push, next, close and return, the
\* items handed to the consumer, followed by those still buffered, are
\* pushed items in push order, none twice; and a pushed item that is in
\* neither was pushed after the close, or the consumer has called
\* return(), or at least maxBuffer items were pushed after it (eviction).
C33_DeliveredInPushOrder ==
  LET kept == stream.delivered \o stream.buffer IN
    /\ \A i \in 1..Len(kept) : kept[i] \in 1..Len(slog.items)
    /\ \A i, j \in 1..Len(kept) : i < j => kept[i] < kept[j]
    /\ \A v \in 1..Len(slog.items) :
         (\A i \in 1..Len(kept) : kept[i] # v) =>
           \/ v > PushedOpen
           \/ stream.returned
           \/ PushedOpen - v >= stream.maxBuffer

\* With capacity 2, item 1 was evicted by item 3, and 2 and 3 were handed
\* out in that order before a fourth item went straight to a waiting next().
C33_Witness ==
  /\ stream.maxBuffer = 2
  /\ stream.delivered = <<2, 3, 4>>
  /\ ~stream.closed

\* C40: the buffer never holds more than maxBuffer items; while a next() is
\* waiting the buffer is empty; on a closed stream no next() is waiting and
\* push() changes nothing.
C40_StreamInvariants ==
  /\ [](Len(stream.buffer) <= stream.maxBuffer)
  /\ [](stream.pending > 0 => stream.buffer = <<>>)
  /\ [](stream.closed => stream.pending = 0)
  /\ [][(stream.closed /\ slog'.items # slog.items) => stream' = stream]_vars

\* A full buffer of capacity 2 after three pushes; then, on another path, a
\* push after the close.
C40_Witness ==
  /\ stream.maxBuffer = 2
  /\ stream.closed
  /\ Len(stream.buffer) = 2
  /\ Len(slog.items) > slog.closedAt
  /\ slog.closedAt >= 3


\* C32: once a run's run.completed has been pushed or its result resolved,
\* status() does not name that run as active, and reports idle unless a
\* later run was started.
C32_NotActiveAfterTerminal ==
  \A r \in RunIds :
    (TerminalPushed(r) \/ Resolved(r)) =>
      /\ status.activeRunId # r
      /\ nextRunId = r + 1 => status.state = "idle"

\* Run 1 resolved its result and is still closing the native iterator; the
\* session reports run 2, started since, as running.
C32_Witness ==
  /\ Resolved(1) /\ pc[1] = "teardown"
  /\ status = [state |-> "running", activeRunId |-> 2]
  /\ ~TerminalPushed(2)

\* C36: the handle map holds at most one entry, and its only key is
\* activeRunId: a handle exists exactly for the active run; status() reports
\* running exactly when activeRunId is set.
C36_OneHandleForActiveRun ==
  /\ Cardinality(abortControllers) <= 1
  /\ abortControllers = (IF activeRunId = NoRun THEN {} ELSE {activeRunId})
  /\ status.state = "running" <=> activeRunId # NoRun

\* Run 2 holds the only handle while run 1's task has its finally blocks
\* still to run.
C36_Witness ==
  /\ activeRunId = 2 /\ abortControllers = {2}
  /\ pc[1] = "gen_finally" /\ pc[2] = "yielding"

\* C37: a step of a run's background task taken after that run's terminal
\* event was pushed leaves a later run alone: the later run stays the
\* active run, keeps its handle, its handle is not aborted, and nothing is
\* pushed to its channel, which is not closed.
C37_CleanupSparesLaterRun ==
  [][ \A r, q \in RunIds :
        (r < q /\ Started(q) /\ TerminalPushed(r) /\ pc'[r] # pc[r]) =>
          /\ activeRunId = q => activeRunId' = q
          /\ q \in abortControllers => q \in abortControllers'
          /\ aborted'[q] = aborted[q]
          /\ events'[q] = events[q]
          /\ pushed'[q] = pushed[q] ]_vars

\* Run 1's task is about to run the run loop's finally while run 2, started
\* after run 1's terminal event, is active and streaming.
C37_Witness ==
  /\ pc[1] = "loop_exit" /\ TerminalPushed(1)
  /\ activeRunId = 2 /\ 2 \in abortControllers
  /\ pc[2] = "await_msg" /\ ~events[2].closed /\ ~aborted[2]

\* C38: a run.completed with status cancelled, as built, in flight, pushed
\* or resolved, belongs to a run whose abort handle was triggered.
C38_CancelledOnlyIfAborted ==
  \A r \in RunIds :
    /\ (done[r] # NoEvent /\ done[r].status = "cancelled") => aborted[r]
    /\ (IsDone(inflight[r]) /\ inflight[r].status = "cancelled") => aborted[r]
    /\ (Resolved(r) /\ result[r].status = "cancelled") => aborted[r]
    /\ \A i \in 1..Len(pushed[r]) :
         (IsDone(pushed[r][i]) /\ pushed[r][i].status = "cancelled") => aborted[r]

\* A cancelled run: the handle was aborted and the pushed terminal event
\* says so.
C38_Witness ==
  \E r \in RunIds :
    /\ aborted[r] /\ Resolved(r) /\ result[r].status = "cancelled"
    /\ \E i \in 1..Len(pushed[r]) : pushed[r][i] = result[r]


\* The options a run of the first session was, or would have been, given.
OpenedClaudeOptions ==
  IF resume.opened.configured THEN mapUnifiedPermissionsToClaude(resume.opened.permissions)
  ELSE NoClaudeOptions
OpenedCodexOptions ==
  IF resume.opened.configured THEN mapUnifiedPermissionsToCodex(resume.opened.permissions)
  ELSE NoCodexOptions

\* C31: a session resumed from a snapshot has the workspace roots of the
\* session the snapshot was taken of, and its runs are mapped with the same
\* permission intent: the Claude decision gate and disallow-list, the Codex
\* sandbox mode.
C31_ResumeRestoresConfig ==
  resume.resumed =>
    /\ workspace = resume.opened.workspace
    /\ (provider = "claude" /\ resume.options.built) =>
         /\ claudeOptions.canUseTool = OpenedClaudeOptions.canUseTool
         /\ claudeOptions.disallowedTools = OpenedClaudeOptions.disallowedTools
         /\ resume.options.cwd = resume.opened.workspace.cwd
         /\ resume.options.additionalDirectories = resume.opened.workspace.additionalDirs
    /\ provider = "codex" => codexOptions.sandboxMode = OpenedCodexOptions.sandboxMode

\* C39: every run of a Claude session is given the resumeSessionId of the
\* session's construction as its resume option, which no native message
\* changes, while nativeSessionId, and with it the next snapshot(), follow
\* the latest session id observed.
C39_ResumeIdFixed ==
  /\ []((provider = "claude" /\ resume.options.built) =>
          resume.options.resume = resume.resumeSessionId)
  /\ [](resume.observed # 0 => resume.nativeSessionId = resume.observed)
  /\ [][ /\ (resume'.resumeSessionId # resume.resumeSessionId) =>
              (~resume.running /\ resume'.resumeSessionId = resume.handle /\ ~resume'.options.built)
         /\ (resume'.handle # resume.handle) => resume'.handle = resume.nativeSessionId ]_vars

\* A Claude session constructed with id 1 observed id 2 in its first run, a
\* snapshot took id 2, and the second run was again given id 1.
C39_Witness ==
  /\ provider = "claude" /\ ~resume.resumed
  /\ resume.runs = 2 /\ resume.options.built
  /\ resume.options.resume = 1 /\ resume.nativeSessionId = 2 /\ resume.handle = 2


====
